---- MODULE Spec2Model ----
(***************************************************************************)
(* A model of mdxpy (src/mdxpy/mdx.py): the identifier normaliser, Member, *)
(* the tuple types, the set nodes that embed cube and attribute names,     *)
(* MdxAxis and MdxBuilder with its rendering to MDX text.                  *)
(*                                                                         *)
(* Text is a sequence of tokens.  The characters of a name are one-character*)
(* strings; a keyword of the grammar ("SELECT", "\r\n", " ON ") is a single *)
(* token.  Python's str methods are modelled by what they compute.         *)
(***************************************************************************)
EXTENDS Integers, Sequences, FiniteSets, TLC

VARIABLES builder, last, call, SHORT_NOTATION

vars == <<builder, last, call, SHORT_NOTATION>>

(***************************************************************************)
(* Bounds of the model.                                                    *)
(***************************************************************************)
\* longest raw name given to normalize
MaxLen == 3
\* longest raw name of a Member coordinate, cube or attribute
MaxPartLen == 1
\* highest axis position used
MaxAxis == 2

\* the characters raw names are made of: a lower-case letter, an upper-case
\* letter, the space and the closing bracket
Alphabet == {"a", "B", " ", "]"}

RECURSIVE SeqsUpTo(_, _)
SeqsUpTo(S, n) ==
    IF n = 0 THEN {<<>>}
    ELSE LET shorter == SeqsUpTo(S, n - 1)
         IN  shorter \cup {Append(s, c) : s \in {t \in shorter : Len(t) = n - 1}, c \in S}

Names == SeqsUpTo(Alphabet, MaxLen)

\* the raw names of coordinates, cubes and attributes: not empty
PartNames == SeqsUpTo(Alphabet, MaxPartLen) \ {<<>>}

(***************************************************************************)
(* Python str operations on sequences of characters.                       *)
(***************************************************************************)
lower_char(c) ==
    CASE c = "A" -> "a"
      [] c = "B" -> "b"
      [] c = "C" -> "c"
      [] c = "D" -> "d"
      [] c = "E" -> "e"
      [] c = "F" -> "f"
      [] c = "G" -> "g"
      [] c = "H" -> "h"
      [] c = "I" -> "i"
      [] c = "J" -> "j"
      [] c = "K" -> "k"
      [] c = "L" -> "l"
      [] c = "M" -> "m"
      [] c = "N" -> "n"
      [] c = "O" -> "o"
      [] c = "P" -> "p"
      [] c = "Q" -> "q"
      [] c = "R" -> "r"
      [] c = "S" -> "s"
      [] c = "T" -> "t"
      [] c = "U" -> "u"
      [] c = "V" -> "v"
      [] c = "W" -> "w"
      [] c = "X" -> "x"
      [] c = "Y" -> "y"
      [] c = "Z" -> "z"
      [] OTHER -> c

\* str.lower()
str_lower(s) == [i \in 1..Len(s) |-> lower_char(s[i])]

\* whether pat occurs in s at the 0-based index i
OccursAt(s, pat, i) ==
    /\ i >= 0
    /\ i + Len(pat) <= Len(s)
    /\ \A k \in 1..Len(pat) : s[i + k] = pat[k]

\* str.replace(old, new): every non-overlapping occurrence, left to right
RECURSIVE str_replace(_, _, _)
str_replace(s, old, new) ==
    IF s = <<>> THEN <<>>
    ELSE IF OccursAt(s, old, 0)
         THEN new \o str_replace(SubSeq(s, Len(old) + 1, Len(s)), old, new)
         ELSE <<s[1]>> \o str_replace(Tail(s), old, new)

\* str.find(pat): the lowest 0-based index of pat in s, -1 when absent
str_find(s, pat) ==
    LET hits == {i \in 0..Len(s) : OccursAt(s, pat, i)}
    IN  IF hits = {} THEN -1 ELSE CHOOSE i \in hits : \A j \in hits : i <= j

\* str.rfind(pat): the highest 0-based index of pat in s, -1 when absent
str_rfind(s, pat) ==
    LET hits == {i \in 0..Len(s) : OccursAt(s, pat, i)}
    IN  IF hits = {} THEN -1 ELSE CHOOSE i \in hits : \A j \in hits : i >= j

\* str.count(pat): the number of non-overlapping occurrences
RECURSIVE str_count(_, _)
str_count(s, pat) ==
    IF Len(s) < Len(pat) THEN 0
    ELSE IF OccursAt(s, pat, 0)
         THEN 1 + str_count(SubSeq(s, Len(pat) + 1, Len(s)), pat)
         ELSE str_count(Tail(s), pat)

\* s[start:stop] with Python's handling of negative and out-of-range indices
str_slice(s, start, stop) ==
    LET n == Len(s)
        norm(i) == IF i < 0 THEN (IF i + n < 0 THEN 0 ELSE i + n)
                   ELSE (IF i > n THEN n ELSE i)
        a == norm(start)
        b == norm(stop)
    IN  IF a >= b THEN <<>> ELSE SubSeq(s, a + 1, b)

\* sep.join(parts): parts is a sequence of texts
RECURSIVE str_join(_, _)
str_join(sep, parts) ==
    IF parts = <<>> THEN <<>>
    ELSE IF Len(parts) = 1 THEN parts[1]
    ELSE parts[1] \o sep \o str_join(sep, Tail(parts))

\* the number of times the character c occurs in s
CountChar(s, c) == Cardinality({i \in 1..Len(s) : s[i] = c})

(***************************************************************************)
(* normalize, src/mdxpy/mdx.py:68: three passes over the name.             *)
(***************************************************************************)
\* normalize without its space-removing pass
normalize_keeping_spaces(name) ==
    str_replace(str_lower(name), <<"]">>, <<"]", "]">>)

\* normalize without its bracket-escaping pass
normalize_unescaped(name) ==
    str_replace(str_lower(name), <<" ">>, <<>>)

normalize(name) ==
    str_replace(str_replace(str_lower(name), <<" ">>, <<>>), <<"]">>, <<"]", "]">>)

(***************************************************************************)
(* Member, src/mdxpy/mdx.py:72.  A member keeps the raw coordinates it was *)
(* built from and the unique name computed at construction.  A call that   *)
(* can raise returns [raised, ret].                                        *)
(***************************************************************************)
Returned(v) == [raised |-> FALSE, ret |-> v]

Raised == [raised |-> TRUE, ret |-> <<>>]

\* the separator of the parts of a unique name
PartSep == <<"]", ".", "[">>

build_unique_name(dimension, hierarchy, element) ==
    IF SHORT_NOTATION /\ dimension = hierarchy
    THEN <<"[">> \o normalize(dimension) \o PartSep \o normalize(element) \o <<"]">>
    ELSE <<"[">> \o normalize(dimension) \o PartSep \o normalize(hierarchy)
             \o PartSep \o normalize(element) \o <<"]">>

Member(dimension, hierarchy, element) ==
    [dimension |-> dimension, hierarchy |-> hierarchy, element |-> element,
     unique_name |-> build_unique_name(dimension, hierarchy, element)]

dimension_name_from_unique_name(element_unique_name) ==
    str_slice(element_unique_name, 1, str_find(element_unique_name, PartSep))

hierarchy_name_from_unique_name(element_unique_name) ==
    str_slice(element_unique_name, str_find(element_unique_name, PartSep) + 3,
              str_rfind(element_unique_name, PartSep))

element_name_from_unique_name(element_unique_name) ==
    str_slice(element_unique_name, str_rfind(element_unique_name, PartSep) + 3, -1)

\* from_unique_name that takes any name with two or more separators as a
\* three-part name
from_unique_name_lenient(unique_name) ==
    LET dimension == dimension_name_from_unique_name(unique_name)
        element == element_name_from_unique_name(unique_name)
    IN  IF str_count(unique_name, PartSep) = 1
        THEN Returned(Member(dimension, dimension, element))
        ELSE IF str_count(unique_name, PartSep) >= 2
        THEN Returned(Member(dimension, hierarchy_name_from_unique_name(unique_name), element))
        ELSE Raised

from_unique_name(unique_name) ==
    LET dimension == dimension_name_from_unique_name(unique_name)
        element == element_name_from_unique_name(unique_name)
    IN  IF str_count(unique_name, PartSep) = 1
        THEN Returned(Member(dimension, dimension, element))
        ELSE IF str_count(unique_name, PartSep) = 2
        THEN Returned(Member(dimension, hierarchy_name_from_unique_name(unique_name), element))
        ELSE Raised

\* Member.of(*args): args is the sequence of the arguments
Member_of(args) ==
    IF Len(args) = 1 THEN from_unique_name(args[1])
    ELSE IF Len(args) = 2 THEN Returned(Member(args[1], args[1], args[2]))
    ELSE IF Len(args) = 3 THEN Returned(Member(args[1], args[2], args[3]))
    ELSE Raised

\* DimensionProperty, src/mdxpy/mdx.py:133: its own SHORT_NOTATION is False, so
\* its unique name always has three parts
DimensionProperty(dimension, hierarchy, attribute) ==
    [dimension |-> dimension, hierarchy |-> hierarchy, element |-> attribute,
     unique_name |-> <<"[">> \o normalize(dimension) \o PartSep \o normalize(hierarchy)
                         \o PartSep \o normalize(attribute) \o <<"]">>]

(***************************************************************************)
(* Arguments whose Python type the code tests with isinstance carry it:    *)
(* [type |-> "str" | "Member" | "MdxTuple" | "MdxSet" | "int" | ..., val]. *)
(***************************************************************************)
StrArg(s) == [type |-> "str", val |-> s]

IntArg(n) == [type |-> "int", val |-> <<ToString(n)>>]

MemberArg(m) == [type |-> "Member", val |-> m]

PropertyArg(p) == [type |-> "DimensionProperty", val |-> p]

\* the object a list keeps when the argument is appended to it: a member of
\* any kind is its record, any other object stays tagged with its type
Stored(arg) == IF arg.type \in {"Member", "DimensionProperty"} THEN arg.val ELSE arg

\* whether the object has the attribute unique_name
HasUniqueName(object) == "unique_name" \in DOMAIN object

(***************************************************************************)
(* The enums DescFlag, Order and ElementType, src/mdxpy/mdx.py:9.  A class *)
(* is the sequence of its members in definition order; a member is its     *)
(* name, character by character, and its value.                            *)
(***************************************************************************)
DescFlag ==
    <<[name |-> <<"S", "E", "L", "F">>, value |-> 1],
      [name |-> <<"A", "F", "T", "E", "R">>, value |-> 2],
      [name |-> <<"B", "E", "F", "O", "R", "E">>, value |-> 3],
      [name |-> <<"B", "E", "F", "O", "R", "E", "_", "A", "N", "D", "_", "A", "F", "T", "E", "R">>, value |-> 4],
      [name |-> <<"S", "E", "L", "F", "_", "A", "N", "D", "_", "A", "F", "T", "E", "R">>, value |-> 5],
      [name |-> <<"S", "E", "L", "F", "_", "A", "N", "D", "_", "B", "E", "F", "O", "R", "E">>, value |-> 6],
      [name |-> <<"S", "E", "L", "F", "_", "B", "E", "F", "O", "R", "E", "_", "A", "F", "T", "E", "R">>, value |-> 7],
      [name |-> <<"L", "E", "A", "V", "E", "S">>, value |-> 8]>>

Order ==
    <<[name |-> <<"A", "S", "C">>, value |-> 1],
      [name |-> <<"D", "E", "S", "C">>, value |-> 2],
      [name |-> <<"B", "A", "S", "C">>, value |-> 3],
      [name |-> <<"B", "D", "E", "S", "C">>, value |-> 4]>>

ElementType ==
    <<[name |-> <<"N", "U", "M", "E", "R", "I", "C">>, value |-> 1],
      [name |-> <<"S", "T", "R", "I", "N", "G">>, value |-> 2],
      [name |-> <<"C", "O", "N", "S", "O", "L", "I", "D", "A", "T", "E", "D">>, value |-> 3]>>

\* the class of the given name
EnumClass(cls) ==
    CASE cls = "DescFlag" -> DescFlag
      [] cls = "Order" -> Order
      [] cls = "ElementType" -> ElementType

EnumArg(cls, member) == [type |-> cls, val |-> member]

\* __str__ of the three classes: the name
Enum___str__(self) == self.name

\* _missing_ comparing the value with its spaces kept
_missing__keeping_spaces(cls, value) ==
    LET hits == {i \in 1..Len(EnumClass(cls)) :
                    str_lower(EnumClass(cls)[i].name) = str_lower(value)}
    IN  IF hits = {} THEN Raised
        ELSE Returned(EnumClass(cls)[CHOOSE i \in hits : \A j \in hits : i <= j])

\* _missing_(cls, value) for a str value: the first member, in definition
\* order, whose lower-cased name is the value without spaces, lower-cased
_missing_(cls, value) ==
    LET hits == {i \in 1..Len(EnumClass(cls)) :
                    str_lower(EnumClass(cls)[i].name)
                        = str_lower(str_replace(value, <<" ">>, <<>>))}
    IN  IF hits = {} THEN Raised
        ELSE Returned(EnumClass(cls)[CHOOSE i \in hits : \A j \in hits : i <= j])

\* cls(value), the call of an Enum class: a member of the class is returned
\* as it is, the value of a member gives that member, and any other value
\* goes to _missing_
EnumCall(cls, value) ==
    IF value.type = cls THEN Returned(value.val)
    ELSE IF value.type = "int" /\ \E i \in 1..Len(EnumClass(cls)) :
                                     value = IntArg(EnumClass(cls)[i].value)
    THEN Returned(EnumClass(cls)[CHOOSE i \in 1..Len(EnumClass(cls)) :
                                    value = IntArg(EnumClass(cls)[i].value)])
    ELSE IF value.type = "str" THEN _missing_(cls, value.val)
    ELSE Raised

(***************************************************************************)
(* MdxTuple, src/mdxpy/mdx.py:251.                                         *)
(***************************************************************************)
MdxTuple(members) == [members |-> members]

\* MdxTuple.of(*args): a str argument goes through Member.of
MdxTuple_of(args) ==
    LET conv(a) == IF a.type = "str" THEN Member_of(<<a.val>>) ELSE Returned(Stored(a))
    IN  IF \E i \in 1..Len(args) : conv(args[i]).raised
        THEN Raised
        ELSE Returned(MdxTuple([i \in 1..Len(args) |-> conv(args[i]).ret]))

MdxTuple_empty == MdxTuple_of(<<>>).ret

MdxTuple_is_empty(self) == self.members = <<>>

\* to_mdx of a tuple whose members compute their unique name when read
MdxTuple_to_mdx_rebuilding(self) ==
    <<"(">> \o str_join(<<",">>, [i \in 1..Len(self.members) |->
                                    build_unique_name(self.members[i].dimension,
                                                      self.members[i].hierarchy,
                                                      self.members[i].element)])
            \o <<")">>

MdxTuple_to_mdx(self) ==
    <<"(">> \o str_join(<<",">>, [i \in 1..Len(self.members) |-> self.members[i].unique_name])
            \o <<")">>

(***************************************************************************)
(* The set nodes, src/mdxpy/mdx.py:370.  A node is a record of the fields  *)
(* its constructor stores; MdxHierarchySet.__init__ normalizes the         *)
(* dimension and hierarchy it is given.  An absent hierarchy (None) and the*)
(* empty string are both <<>>: the code tests "if hierarchy".              *)
(***************************************************************************)
ELEMENT_ATTRIBUTE_PREFIX == <<"}ELEMENTATTRIBUTES_">>

MdxHierarchySet(dimension, hierarchy) ==
    [dimension |-> normalize(dimension),
     hierarchy |-> IF hierarchy # <<>> THEN normalize(hierarchy) ELSE normalize(dimension)]

\* a node: the fields of MdxHierarchySet.__init__ and those of its own class
Node(kind, dimension, hierarchy, fields) ==
    [kind |-> kind, base |-> MdxHierarchySet(dimension, hierarchy), f |-> fields]

Tm1SubsetAllHierarchySet(dimension, hierarchy) ==
    Node("Tm1SubsetAll", dimension, hierarchy, <<>>)

StrHierarchySet(dimension, hierarchy, mdx) ==
    Node("Str", dimension, hierarchy, [mdx |-> mdx])

FilterByAttributeHierarchySet(underlying, attribute_name, attribute_values, operator) ==
    Node("FilterByAttribute", underlying.base.dimension, underlying.base.hierarchy,
         [underlying |-> underlying, attribute_name |-> attribute_name,
          attribute_values |-> attribute_values, operator |-> operator])

FilterByCellValueHierarchySet(underlying, cube, mdx_tuple, operator, value) ==
    Node("FilterByCellValue", underlying.base.dimension, underlying.base.hierarchy,
         [underlying |-> underlying, cube |-> normalize(cube), mdx_tuple |-> mdx_tuple,
          operator |-> operator, value |-> value])

FilterByInstr(underlying, cube, mdx_tuple, substring, operator, position, case_insensitive) ==
    Node("FilterByInstr", underlying.base.dimension, underlying.base.hierarchy,
         [underlying |-> underlying, cube |-> normalize(cube), mdx_tuple |-> mdx_tuple,
          substring |-> IF case_insensitive THEN str_lower(substring) ELSE substring,
          operator |-> operator, position |-> position,
          case_insensitive |-> case_insensitive])

OrderByCellValueHierarchySet(underlying, cube, mdx_tuple, order) ==
    Node("OrderByCellValue", underlying.base.dimension, underlying.base.hierarchy,
         [underlying |-> underlying, cube |-> normalize(cube), mdx_tuple |-> mdx_tuple,
          order |-> order])

TopCountHierarchySet(underlying, cube, mdx_tuple, top) ==
    Node("TopCount", underlying.base.dimension, underlying.base.hierarchy,
         [underlying |-> underlying, cube |-> normalize(cube), mdx_tuple |-> mdx_tuple,
          top |-> top])

BottomCountHierarchySet(underlying, cube, mdx_tuple, top) ==
    Node("BottomCount", underlying.base.dimension, underlying.base.hierarchy,
         [underlying |-> underlying, cube |-> normalize(cube), mdx_tuple |-> mdx_tuple,
          top |-> top])

\* a value spliced into the text: a str is quoted with q, anything else is not
Quoted(value, q) == IF value.type = "str" THEN q \o value.val \o q ELSE value.val

RECURSIVE set_to_mdx(_)

Tm1SubsetAll_to_mdx(self) ==
    <<"{TM1SUBSETALL(", "[">> \o self.base.dimension \o PartSep \o self.base.hierarchy
        \o <<"]", ")}">>

FilterByAttribute_to_mdx(self) ==
    LET element_attribute_cube == ELEMENT_ATTRIBUTE_PREFIX \o self.base.dimension
        adjusted_values == [i \in 1..Len(self.f.attribute_values) |->
                               Quoted(self.f.attribute_values[i], <<"\"">>)]
        mdx_filter == str_join(<<" OR ">>,
            [i \in 1..Len(adjusted_values) |->
                <<"[">> \o element_attribute_cube \o <<"]", ".", "(", "[">>
                    \o element_attribute_cube \o PartSep \o self.f.attribute_name
                    \o <<"]", ")">> \o self.f.operator \o adjusted_values[i]])
    IN  <<"{FILTER(">> \o set_to_mdx(self.f.underlying) \o <<",">> \o mdx_filter \o <<")}">>

FilterByCellValue_to_mdx(self) ==
    <<"{FILTER(">> \o set_to_mdx(self.f.underlying) \o <<",", "[">> \o self.f.cube
        \o <<"]", ".">> \o MdxTuple_to_mdx(self.f.mdx_tuple) \o self.f.operator
        \o Quoted(self.f.value, <<"'">>) \o <<")}">>

FilterByInstr_to_mdx(self) ==
    <<"{FILTER(">> \o set_to_mdx(self.f.underlying) \o <<",", "INSTR(">>
        \o (IF self.f.case_insensitive THEN <<"LCASE(">> ELSE <<>>)
        \o <<"[">> \o self.f.cube \o <<"]", ".">> \o MdxTuple_to_mdx(self.f.mdx_tuple)
        \o (IF self.f.case_insensitive THEN <<")">> ELSE <<>>)
        \o <<",", "'">> \o self.f.substring \o <<"'", ")">>
        \o self.f.operator \o self.f.position.val \o <<")}">>

OrderByCellValue_to_mdx(self) ==
    <<"{ORDER(">> \o set_to_mdx(self.f.underlying) \o <<",", "[">> \o self.f.cube
        \o <<"]", ".">> \o MdxTuple_to_mdx(self.f.mdx_tuple) \o <<",", self.f.order, ")}">>

TopCount_to_mdx(self) ==
    <<"{TOPCOUNT(">> \o set_to_mdx(self.f.underlying) \o <<",">> \o self.f.top.val
        \o <<",", "[">> \o self.f.cube \o <<"]", ".">> \o MdxTuple_to_mdx(self.f.mdx_tuple)
        \o <<")}">>

BottomCount_to_mdx(self) ==
    <<"{BOTTOMCOUNT(">> \o set_to_mdx(self.f.underlying) \o <<",">> \o self.f.top.val
        \o <<",", "[">> \o self.f.cube \o <<"]", ".">> \o MdxTuple_to_mdx(self.f.mdx_tuple)
        \o <<")}">>

\* MultiUnionSet, src/mdxpy/mdx.py:354, and MultiUnionHierarchySet,
\* src/mdxpy/mdx.py:1034: the constructor raises on an empty list; the
\* hierarchy variant takes its dimension and hierarchy from the first set
MultiUnionSet(sets, allow_duplicates) ==
    IF sets = <<>> THEN Raised
    ELSE Returned([kind |-> "MultiUnionSet",
                   f |-> [sets |-> sets, allow_duplicates |-> allow_duplicates]])

MultiUnionHierarchySet(sets, allow_duplicates) ==
    IF sets = <<>> THEN Raised
    ELSE Returned(Node("MultiUnionHierarchySet", sets[1].base.dimension, sets[1].base.hierarchy,
                       [sets |-> sets, allow_duplicates |-> allow_duplicates]))

\* the union rendered with the two separators exchanged
MultiUnionSet_to_mdx_exchanged(self) ==
    IF self.f.allow_duplicates
    THEN <<"{">> \o str_join(<<" + ">>, [i \in 1..Len(self.f.sets) |-> set_to_mdx(self.f.sets[i])])
             \o <<"}">>
    ELSE <<"{">> \o str_join(<<",">>, [i \in 1..Len(self.f.sets) |-> set_to_mdx(self.f.sets[i])])
             \o <<"}">>

MultiUnionSet_to_mdx(self) ==
    IF self.f.allow_duplicates
    THEN <<"{">> \o str_join(<<",">>, [i \in 1..Len(self.f.sets) |-> set_to_mdx(self.f.sets[i])])
             \o <<"}">>
    ELSE <<"{">> \o str_join(<<" + ">>, [i \in 1..Len(self.f.sets) |-> set_to_mdx(self.f.sets[i])])
             \o <<"}">>

MultiUnionHierarchySet_to_mdx(self) ==
    IF self.f.allow_duplicates
    THEN <<"{">> \o str_join(<<",">>, [i \in 1..Len(self.f.sets) |-> set_to_mdx(self.f.sets[i])])
             \o <<"}">>
    ELSE <<"{">> \o str_join(<<" + ">>, [i \in 1..Len(self.f.sets) |-> set_to_mdx(self.f.sets[i])])
             \o <<"}">>

\* CrossJoinMdxSet, src/mdxpy/mdx.py:336, without its test for an empty list
CrossJoinMdxSet_unchecked(sets) ==
    Returned([kind |-> "CrossJoinMdxSet", f |-> [sets |-> sets]])

\* CrossJoinMdxSet, src/mdxpy/mdx.py:336: the constructor raises on an empty list
CrossJoinMdxSet(sets) ==
    IF sets = <<>> THEN Raised
    ELSE Returned([kind |-> "CrossJoinMdxSet", f |-> [sets |-> sets]])

CrossJoinMdxSet_to_mdx(self) ==
    <<"{">> \o str_join(<<" * ">>, [i \in 1..Len(self.f.sets) |-> set_to_mdx(self.f.sets[i])])
        \o <<"}">>

\* ElementsHierarchySet, src/mdxpy/mdx.py:604: raises without members, and
\* takes its dimension and hierarchy from the first member
ElementsHierarchySet(members) ==
    IF members = <<>> THEN Raised
    ELSE Returned(Node("Elements", members[1].dimension, members[1].hierarchy,
                       [members |-> members]))

Elements_to_mdx(self) ==
    <<"{">> \o str_join(<<",">>, [i \in 1..Len(self.f.members) |-> self.f.members[i].unique_name])
        \o <<"}">>

\* MdxHierarchySet.members, src/mdxpy/mdx.py:421: a str goes through Member.of
MdxHierarchySet_members(members) ==
    LET conv(a) == IF a.type = "str" THEN Member_of(<<a.val>>) ELSE Returned(Stored(a))
    IN  IF \E i \in 1..Len(members) : conv(members[i]).raised
        THEN Raised
        ELSE ElementsHierarchySet([i \in 1..Len(members) |-> conv(members[i]).ret])

\* MdxLevelExpression, src/mdxpy/mdx.py:198, and its three classes: the
\* constructor normalizes the dimension and the hierarchy it is given
MdxLevelExpression(kind, dimension, hierarchy, fields) ==
    [kind |-> kind, dimension |-> normalize(dimension),
     hierarchy |-> IF hierarchy # <<>> THEN normalize(hierarchy) ELSE normalize(dimension),
     f |-> fields]

LevelNumberExpression(level_number, dimension, hierarchy) ==
    MdxLevelExpression("LevelNumber", dimension, hierarchy, [level |-> level_number])

LevelNameExpression(level_name, dimension, hierarchy) ==
    MdxLevelExpression("LevelName", dimension, hierarchy, [level |-> level_name])

MemberLevelExpression(member) ==
    MdxLevelExpression("MemberLevel", member.dimension, member.hierarchy, [member |-> member])

MdxLevelExpression_to_mdx(self) ==
    CASE self.kind = "LevelNumber" ->
             <<"[">> \o self.dimension \o PartSep \o self.hierarchy
                 \o <<"]", ".LEVELS(">> \o self.f.level.val \o <<")">>
      [] self.kind = "LevelName" ->
             <<"[">> \o self.dimension \o PartSep \o self.hierarchy
                 \o <<"]", ".LEVELS(", "'">> \o self.f.level \o <<"'", ")">>
      [] self.kind = "MemberLevel" -> self.f.member.unique_name \o <<".LEVEL">>

LevelArg(expression) == [type |-> "MdxLevelExpression", val |-> expression]

\* DescendantsHierarchySet, src/mdxpy/mdx.py:718: the flag, when given, is
\* parsed by DescFlag, which raises on a string that names no flag
DescendantsHierarchySet(member, level_or_depth, description_flag) ==
    LET flag == IF description_flag.type = "None" THEN Returned(description_flag)
                ELSE EnumCall("DescFlag", description_flag)
    IN  IF flag.raised THEN Raised
        ELSE Returned(Node("Descendants", member.dimension, member.hierarchy,
                           [member |-> member, level_or_depth |-> level_or_depth,
                            descFlag |-> flag.ret]))

\* descFlag is a member of DescFlag, which has a name, or None
Descendants_to_mdx(self) ==
    LET level_expression ==
            IF self.f.level_or_depth.type = "MdxLevelExpression"
            THEN <<", ">> \o MdxLevelExpression_to_mdx(self.f.level_or_depth.val)
            ELSE IF self.f.level_or_depth.type # "None"
                 THEN <<",">> \o self.f.level_or_depth.val
                 ELSE <<>>
        flag == IF "name" \in DOMAIN self.f.descFlag
                THEN <<", ">> \o Enum___str__(self.f.descFlag)
                ELSE <<>>
    IN  <<"{DESCENDANTS(">> \o self.f.member.unique_name \o level_expression \o flag
            \o <<")}">>

\* MdxHierarchySet.descendants, src/mdxpy/mdx.py:470: a str member goes
\* through Member.of
MdxHierarchySet_descendants(member, level_or_depth, desc_flag) ==
    LET m == IF member.type = "str" THEN Member_of(<<member.val>>) ELSE Returned(Stored(member))
    IN  IF m.raised THEN Raised
        ELSE DescendantsHierarchySet(m.ret, level_or_depth, desc_flag)

\* The nodes that wrap one set, src/mdxpy/mdx.py:815 to 957: each passes the
\* dimension and hierarchy of the set it wraps to MdxHierarchySet.__init__
Tm1FilterByElementTypeHierarchySet(underlying, element_type) ==
    LET type == EnumCall("ElementType", element_type)
    IN  IF type.raised THEN Raised
        ELSE Returned(Node("Tm1FilterByElementType", underlying.base.dimension,
                           underlying.base.hierarchy,
                           [underlying |-> underlying, element_type |-> type.ret]))

Tm1FilterByElementType_to_mdx(self) ==
    <<"{FILTER(">> \o set_to_mdx(self.f.underlying) \o <<",", "[">> \o self.base.dimension
        \o PartSep \o self.base.hierarchy
        \o <<"]", ".CURRENTMEMBER.PROPERTIES('ELEMENT_TYPE')=", "'",
             ToString(self.f.element_type.value), "'", ")}">>

Tm1SortHierarchySet(underlying, ascending) ==
    Node("Tm1Sort", underlying.base.dimension, underlying.base.hierarchy,
         [underlying |-> underlying, ascending |-> ascending])

Tm1Sort_to_mdx(self) ==
    <<"{TM1SORT(">> \o set_to_mdx(self.f.underlying)
        \o <<",", IF self.f.ascending THEN "ASC" ELSE "DESC", ")}">>

HierarchizeSet(underlying) ==
    Node("Hierarchize", underlying.base.dimension, underlying.base.hierarchy,
         [underlying |-> underlying])

Hierarchize_to_mdx(self) ==
    <<"{HIERARCHIZE(">> \o set_to_mdx(self.f.underlying) \o <<")}">>

HeadHierarchySet(underlying, head) ==
    Node("Head", underlying.base.dimension, underlying.base.hierarchy,
         [underlying |-> underlying, head |-> head])

Head_to_mdx(self) ==
    <<"{HEAD(">> \o set_to_mdx(self.f.underlying) \o <<",">> \o self.f.head.val \o <<")}">>

UnionHierarchySet(underlying, other, allow_duplicates) ==
    Node("Union", underlying.base.dimension, underlying.base.hierarchy,
         [underlying |-> underlying, other |-> other, allow_duplicates |-> allow_duplicates])

Union_to_mdx(self) ==
    <<"{UNION(">> \o set_to_mdx(self.f.underlying) \o <<",">> \o set_to_mdx(self.f.other)
        \o (IF self.f.allow_duplicates THEN <<", ALL">> ELSE <<>>) \o <<")}">>

\* to_mdx of a node, by its class
set_to_mdx(self) ==
    CASE self.kind = "Tm1SubsetAll" -> Tm1SubsetAll_to_mdx(self)
      [] self.kind = "Str" -> self.f.mdx
      [] self.kind = "FilterByAttribute" -> FilterByAttribute_to_mdx(self)
      [] self.kind = "FilterByCellValue" -> FilterByCellValue_to_mdx(self)
      [] self.kind = "FilterByInstr" -> FilterByInstr_to_mdx(self)
      [] self.kind = "OrderByCellValue" -> OrderByCellValue_to_mdx(self)
      [] self.kind = "TopCount" -> TopCount_to_mdx(self)
      [] self.kind = "BottomCount" -> BottomCount_to_mdx(self)
      [] self.kind = "MultiUnionSet" -> MultiUnionSet_to_mdx(self)
      [] self.kind = "MultiUnionHierarchySet" -> MultiUnionHierarchySet_to_mdx(self)
      [] self.kind = "CrossJoinMdxSet" -> CrossJoinMdxSet_to_mdx(self)
      [] self.kind = "Elements" -> Elements_to_mdx(self)
      [] self.kind = "Descendants" -> Descendants_to_mdx(self)
      [] self.kind = "Tm1FilterByElementType" -> Tm1FilterByElementType_to_mdx(self)
      [] self.kind = "Tm1Sort" -> Tm1Sort_to_mdx(self)
      [] self.kind = "Hierarchize" -> Hierarchize_to_mdx(self)
      [] self.kind = "Head" -> Head_to_mdx(self)
      [] self.kind = "Union" -> Union_to_mdx(self)

(***************************************************************************)
(* CalculatedMember, src/mdxpy/mdx.py:166: a Member and its calculation.   *)
(***************************************************************************)
CalculatedMember(dimension, hierarchy, element, calculation) ==
    [dimension |-> dimension, hierarchy |-> hierarchy, element |-> element,
     unique_name |-> build_unique_name(dimension, hierarchy, element),
     calculation |-> calculation]

CalculatedMember_avg(dimension, hierarchy, element, cube, mdx_set, mdx_tuple) ==
    CalculatedMember(dimension, hierarchy, element,
        <<"AVG(">> \o set_to_mdx(mdx_set) \o <<",", "[">> \o str_lower(cube) \o <<"]", ".">>
            \o MdxTuple_to_mdx(mdx_tuple) \o <<")">>)

CalculatedMember_sum(dimension, hierarchy, element, cube, mdx_set, mdx_tuple) ==
    CalculatedMember(dimension, hierarchy, element,
        <<"SUM(">> \o set_to_mdx(mdx_set) \o <<",", "[">> \o str_lower(cube) \o <<"]", ".">>
            \o MdxTuple_to_mdx(mdx_tuple) \o <<")">>)

CalculatedMember_lookup(dimension, hierarchy, element, cube, mdx_tuple) ==
    CalculatedMember(dimension, hierarchy, element,
        <<"[">> \o str_lower(cube) \o <<"]", ".">> \o MdxTuple_to_mdx(mdx_tuple))

CalculatedMember_lookup_attribute(dimension, hierarchy, element, attribute_dimension, attribute) ==
    LET attribute_cube == ELEMENT_ATTRIBUTE_PREFIX \o str_lower(attribute_dimension)
    IN  CalculatedMember(dimension, hierarchy, element,
            <<"[">> \o attribute_cube \o <<"]", ".", "(", "[">> \o attribute_cube
                \o PartSep \o str_lower(attribute) \o <<"]", ")">>)

\* the declaration without the name of the member
CalculatedMember_to_mdx_unnamed(self) ==
    <<"MEMBER ">> \o <<" AS ">> \o self.calculation

CalculatedMember_to_mdx(self) ==
    <<"MEMBER ">> \o self.unique_name \o <<" AS ">> \o self.calculation

(***************************************************************************)
(* Python dict, which keeps its keys in insertion order: a sequence of     *)
(* [key, value] entries.                                                   *)
(***************************************************************************)
DictKeys(d) == {d[i].key : i \in 1..Len(d)}

DictHas(d, k) == k \in DictKeys(d)

DictGet(d, k) == d[CHOOSE i \in 1..Len(d) : d[i].key = k].value

\* d.get(k, default)
DictGetOr(d, k, default) == IF DictHas(d, k) THEN DictGet(d, k) ELSE default

\* d[k] = v: a new key goes last, a known key keeps its place
DictSet(d, k, v) ==
    IF DictHas(d, k)
    THEN [i \in 1..Len(d) |-> IF d[i].key = k THEN [key |-> k, value |-> v] ELSE d[i]]
    ELSE Append(d, [key |-> k, value |-> v])

(***************************************************************************)
(* MdxPropertiesTuple, src/mdxpy/mdx.py:284.                               *)
(***************************************************************************)
MdxPropertiesTuple(members) == [members |-> members]

MdxPropertiesTuple_empty == MdxPropertiesTuple(<<>>)

MdxPropertiesTuple_is_empty(self) == self.members = <<>>

MdxPropertiesTuple_to_mdx(self) ==
    str_join(<<",">>, [i \in 1..Len(self.members) |-> self.members[i].unique_name])

DimensionProperty_from_unique_name(unique_name) ==
    LET dimension == dimension_name_from_unique_name(unique_name)
        attribute == element_name_from_unique_name(unique_name)
    IN  IF str_count(unique_name, PartSep) = 1
        THEN Returned(DimensionProperty(dimension, dimension, attribute))
        ELSE IF str_count(unique_name, PartSep) = 2
        THEN Returned(DimensionProperty(dimension, hierarchy_name_from_unique_name(unique_name),
                                        attribute))
        ELSE Raised

DimensionProperty_of(args) ==
    IF Len(args) = 1 THEN DimensionProperty_from_unique_name(args[1])
    ELSE IF Len(args) = 2 THEN Returned(DimensionProperty(args[1], args[1], args[2]))
    ELSE IF Len(args) = 3 THEN Returned(DimensionProperty(args[1], args[2], args[3]))
    ELSE Raised

\* MdxPropertiesTuple.add_member: a str goes through DimensionProperty.of, any
\* other object is appended as it is
MdxPropertiesTuple_add_member(self, member) ==
    LET m == IF member.type = "str" THEN DimensionProperty_of(<<member.val>>)
             ELSE Returned(Stored(member))
    IN  IF m.raised THEN [self |-> self, raised |-> TRUE]
        ELSE [self |-> [self EXCEPT !.members = Append(@, m.ret)], raised |-> FALSE]

(***************************************************************************)
(* MdxAxis, src/mdxpy/mdx.py:1054.  A method that changes the object       *)
(* returns [self, raised]: the object after the call and whether it raised.*)
(***************************************************************************)
None == [type |-> "None", val |-> <<>>]

SetArg(node) == [type |-> "MdxSet", val |-> node]

TupleArg(t) == [type |-> "MdxTuple", val |-> t]

MdxAxis_empty == [tuples |-> <<>>, dim_sets |-> <<>>, non_empty |-> FALSE]

\* add_tuple without its test for sets 
MdxAxis_add_tuple_unchecked(self, mdx_tuple) ==
    [self |-> [self EXCEPT !.tuples = Append(@, mdx_tuple)], raised |-> FALSE]

MdxAxis_add_tuple(self, mdx_tuple) ==
    IF self.dim_sets # <<>>
    THEN [self |-> self, raised |-> TRUE]
    ELSE [self |-> [self EXCEPT !.tuples = Append(@, mdx_tuple)], raised |-> FALSE]

\* add_set without its test for tuples
MdxAxis_add_set_unchecked(self, mdx_set) ==
    IF mdx_set.type # "MdxSet"
    THEN [self |-> self, raised |-> TRUE]
    ELSE [self |-> [self EXCEPT !.dim_sets = Append(@, mdx_set.val)], raised |-> FALSE]

\* mdx_set is the argument with its type
MdxAxis_add_set(self, mdx_set) ==
    IF self.tuples # <<>>
    THEN [self |-> self, raised |-> TRUE]
    ELSE IF mdx_set.type # "MdxSet"
    THEN [self |-> self, raised |-> TRUE]
    ELSE [self |-> [self EXCEPT !.dim_sets = Append(@, mdx_set.val)], raised |-> FALSE]

MdxAxis_is_empty(self) == self.dim_sets = <<>> /\ self.tuples = <<>>

MdxAxis_set_non_empty(self) == [self EXCEPT !.non_empty = TRUE]

\* the wrapping with TAIL applied before HEAD
HeadTail_tail_first(mdx, head, tail) ==
    LET tailed == IF tail # None
                  THEN <<"{TAIL(">> \o mdx \o <<", ">> \o tail.val \o <<")}">>
                  ELSE mdx
    IN  IF head # None
        THEN <<"{HEAD(">> \o tailed \o <<", ">> \o head.val \o <<")}">>
        ELSE tailed

\* head and tail are None or an int
HeadTail(mdx, head, tail) ==
    LET headed == IF head # None
                  THEN <<"{HEAD(">> \o mdx \o <<", ">> \o head.val \o <<")}">>
                  ELSE mdx
    IN  IF tail # None
        THEN <<"{TAIL(">> \o headed \o <<", ">> \o tail.val \o <<")}">>
        ELSE headed

dim_sets_to_mdx(self, head, tail) ==
    HeadTail(str_join(<<" * ">>, [i \in 1..Len(self.dim_sets) |-> set_to_mdx(self.dim_sets[i])]),
             head, tail)

tuples_to_mdx(self, head, tail) ==
    HeadTail(<<"{">> \o str_join(<<",">>, [i \in 1..Len(self.tuples) |->
                                               MdxTuple_to_mdx(self.tuples[i])]) \o <<"}">>,
             head, tail)

MdxAxis_to_mdx(self, tm1_ignore_bad_tuples, head, tail) ==
    IF MdxAxis_is_empty(self)
    THEN <<"{}">>
    ELSE (IF self.non_empty THEN <<"NON EMPTY ">> ELSE <<>>)
         \o (IF tm1_ignore_bad_tuples THEN <<"TM1IGNORE_BADTUPLES ">> ELSE <<>>)
         \o (IF self.dim_sets # <<>> THEN dim_sets_to_mdx(self, head, tail)
             ELSE tuples_to_mdx(self, head, tail))

(***************************************************************************)
(* MdxBuilder, src/mdxpy/mdx.py:1110.  A method returns [self, raised,     *)
(* ret]: the builder after the call (also when the call raised part-way),  *)
(* whether it raised, and the text to_mdx returns.                         *)
(***************************************************************************)
\* a builder that keeps the cube name as it is given
MdxBuilder_keeping_cube(cube) ==
    [cube |-> cube,
     axes |-> <<[key |-> 0, value |-> MdxAxis_empty]>>,
     _where |-> MdxTuple_empty,
     axes_properties |-> <<[key |-> 0, value |-> MdxPropertiesTuple_empty]>>,
     calculated_members |-> <<>>,
     _tm1_ignore_bad_tuples |-> FALSE]

MdxBuilder(cube) ==
    [cube |-> normalize(cube),
     axes |-> <<[key |-> 0, value |-> MdxAxis_empty]>>,
     _where |-> MdxTuple_empty,
     axes_properties |-> <<[key |-> 0, value |-> MdxPropertiesTuple_empty]>>,
     calculated_members |-> <<>>,
     _tm1_ignore_bad_tuples |-> FALSE]

Done(self) == [self |-> self, raised |-> FALSE, ret |-> <<>>]

Failed(self) == [self |-> self, raised |-> TRUE, ret |-> <<>>]

\* "if axis not in self.axes: self.axes[axis] = MdxAxis.empty()"
WithAxis(self, axis) ==
    IF DictHas(self.axes, axis) THEN self
    ELSE [self EXCEPT !.axes = DictSet(@, axis, MdxAxis_empty)]

with_member(self, member) ==
    Done([self EXCEPT !.calculated_members = Append(@, member)])

non_empty(self, axis) ==
    LET s1 == WithAxis(self, axis)
    IN  Done([s1 EXCEPT !.axes = DictSet(@, axis, MdxAxis_set_non_empty(DictGet(@, axis)))])

tm1_ignore_bad_tuples(self, ignore) ==
    Done([self EXCEPT !._tm1_ignore_bad_tuples = ignore])

\* args is the sequence of the arguments after the axis; args[0] of an empty
\* argument list raises IndexError
add_member_tuple_to_axis(self, axis, args) ==
    LET s1 == WithAxis(self, axis)
        t == IF args = <<>> THEN Raised
             ELSE IF args[1].type = "MdxTuple" THEN Returned(args[1].val)
             ELSE MdxTuple_of(args)
    IN  IF t.raised THEN Failed(s1)
        ELSE LET r == MdxAxis_add_tuple(DictGet(s1.axes, axis), t.ret)
             IN  [self |-> [s1 EXCEPT !.axes = DictSet(@, axis, r.self)],
                  raised |-> r.raised, ret |-> <<>>]

add_set_to_axis(self, axis, mdx_set) ==
    LET s1 == WithAxis(self, axis)
        r == MdxAxis_add_set(DictGet(s1.axes, axis), mdx_set)
    IN  [self |-> [s1 EXCEPT !.axes = DictSet(@, axis, r.self)],
         raised |-> r.raised, ret |-> <<>>]

add_hierarchy_set_to_axis(self, axis, mdx_hierarchy_set) ==
    add_set_to_axis(self, axis, mdx_hierarchy_set)

add_empty_set_to_axis(self, axis) ==
    IF DictHas(self.axes, axis)
    THEN Failed(self)
    ELSE add_hierarchy_set_to_axis(self, axis, SetArg(StrHierarchySet(<<>>, <<>>, <<"{}">>)))

\* MdxTuple.add_member on the slicer: a str goes through Member.of
add_member_to_where(self, member) ==
    LET m == IF member.type = "str" THEN Member_of(<<member.val>>) ELSE Returned(Stored(member))
    IN  IF m.raised THEN Failed(self)
        ELSE Done([self EXCEPT !._where.members = Append(@, m.ret)])

\* where(*args): the arguments are taken one by one; a str goes through
\* Member.of, an object that is no Member raises, and the members before the
\* one that raised have been added
RECURSIVE where(_, _)
where(self, args) ==
    IF args = <<>> THEN Done(self)
    ELSE LET member == IF args[1].type = "str" THEN Member_of(<<args[1].val>>)
                       ELSE Returned(Stored(args[1]))
         IN  IF member.raised THEN Failed(self)
             ELSE IF args[1].type \notin {"str", "Member", "DimensionProperty"} THEN Failed(self)
             ELSE where(add_member_to_where(self, MemberArg(member.ret)).self, Tail(args))

\* add_member_to_properties that gives the position a new tuple of the member
\* also when the position has properties
add_member_to_properties_replacing(self, axis, member) ==
    Done([self EXCEPT !.axes_properties =
                          DictSet(@, axis, MdxPropertiesTuple(<<Stored(member)>>))])

\* a position that has properties gets the member through add_member; a
\* position that has none gets a new tuple of the member as it is given
add_member_to_properties(self, axis, member) ==
    IF DictHas(self.axes_properties, axis)
    THEN LET r == MdxPropertiesTuple_add_member(DictGet(self.axes_properties, axis), member)
         IN  [self |-> [self EXCEPT !.axes_properties = DictSet(@, axis, r.self)],
              raised |-> r.raised, ret |-> <<>>]
    ELSE Done([self EXCEPT !.axes_properties =
                               DictSet(@, axis, MdxPropertiesTuple(<<Stored(member)>>))])

\* add_properties(axis, *args): as where, with DimensionProperty for Member
RECURSIVE add_properties(_, _, _)
add_properties(self, axis, args) ==
    IF args = <<>> THEN Done(self)
    ELSE LET member == IF args[1].type = "str" THEN DimensionProperty_of(<<args[1].val>>)
                       ELSE Returned(Stored(args[1]))
         IN  IF member.raised THEN Failed(self)
             ELSE IF args[1].type \notin {"str", "DimensionProperty"} THEN Failed(self)
             ELSE add_properties(
                      add_member_to_properties(self, axis, PropertyArg(member.ret)).self,
                      axis, Tail(args))

\* _axis_mdx that renders the properties whatever skip_dimension_properties is
_axis_mdx_never_skipping(self, position, head, tail, skip_dimension_properties) ==
    LET axis == DictGet(self.axes, position)
        axis_properties == DictGetOr(self.axes_properties, position, MdxPropertiesTuple_empty)
    IN  IF MdxAxis_is_empty(axis) THEN <<>>
        ELSE str_join(<<" ">>, << MdxAxis_to_mdx(axis, self._tm1_ignore_bad_tuples, head, tail),
                                  <<"DIMENSION PROPERTIES">>,
                                  IF MdxPropertiesTuple_is_empty(axis_properties)
                                  THEN <<"MEMBER_NAME">>
                                  ELSE MdxPropertiesTuple_to_mdx(axis_properties),
                                  <<"ON ", ToString(position)>> >>)

_axis_mdx(self, position, head, tail, skip_dimension_properties) ==
    LET axis == DictGet(self.axes, position)
        axis_properties == DictGetOr(self.axes_properties, position, MdxPropertiesTuple_empty)
    IN  IF MdxAxis_is_empty(axis) THEN <<>>
        ELSE IF skip_dimension_properties
        THEN str_join(<<" ">>, << MdxAxis_to_mdx(axis, self._tm1_ignore_bad_tuples, head, tail),
                                  <<"ON ", ToString(position)>> >>)
        ELSE str_join(<<" ">>, << MdxAxis_to_mdx(axis, self._tm1_ignore_bad_tuples, head, tail),
                                  <<"DIMENSION PROPERTIES">>,
                                  IF MdxPropertiesTuple_is_empty(axis_properties)
                                  THEN <<"MEMBER_NAME">>
                                  ELSE MdxPropertiesTuple_to_mdx(axis_properties),
                                  <<"ON ", ToString(position)>> >>)

\* the text of the axes: one entry per key of self.axes, in the dict's order
mdx_axes(self, a) ==
    LET head_by_axis_position == << [key |-> 0, value |-> a.head_columns],
                                    [key |-> 1, value |-> a.head_rows] >>
        tail_by_axis_position == << [key |-> 0, value |-> a.tail_columns],
                                    [key |-> 1, value |-> a.tail_rows] >>
    IN  str_join(<<",", "\r\n">>,
            [i \in 1..Len(self.axes) |->
                _axis_mdx(self, self.axes[i].key,
                          DictGetOr(head_by_axis_position, self.axes[i].key, None),
                          DictGetOr(tail_by_axis_position, self.axes[i].key, None),
                          a.skip_dimension_properties)])

\* the text to_mdx returns; a is the record of the keyword arguments
to_mdx_text(self, a) ==
    LET mdx_with == <<"WITH", "\r\n">>
                    \o str_join(<<"\r\n">>, [i \in 1..Len(self.calculated_members) |->
                                    CalculatedMember_to_mdx(self.calculated_members[i])])
                    \o <<"\r\n">>
        mdx_where == IF ~MdxTuple_is_empty(self._where)
                     THEN <<"\r\n", "WHERE ">> \o MdxTuple_to_mdx(self._where)
                     ELSE <<>>
    IN  (IF self.calculated_members # <<>> THEN mdx_with ELSE <<>>)
        \o <<"SELECT", "\r\n">> \o mdx_axes(self, a)
        \o <<"\r\n", "FROM ", "[">> \o self.cube \o <<"]">> \o mdx_where

\* the properties dict after registering an empty tuple for every key of
\* axes it lacks (what axes_properties.setdefault would do)
RECURSIVE RegisterAll(_, _)
RegisterAll(props, axes) ==
    IF axes = <<>> THEN props
    ELSE RegisterAll(IF DictHas(props, axes[1].key) THEN props
                     ELSE DictSet(props, axes[1].key, MdxPropertiesTuple_empty),
                     Tail(axes))

\* to_mdx that registers the properties of every axis it renders
to_mdx_registering_properties(self, a) ==
    [self |-> [self EXCEPT !.axes_properties = RegisterAll(@, self.axes)],
     raised |-> FALSE, ret |-> to_mdx_text(self, a)]

\* whether every object whose unique_name the rendering reads has one: the
\* members of the slicer, of the tuples of the axes, and of the properties of
\* the axes that are rendered with their properties
CanRender(self, a) ==
    /\ \A i \in 1..Len(self._where.members) : HasUniqueName(self._where.members[i])
    /\ \A i \in 1..Len(self.axes) :
          /\ \A j \in 1..Len(self.axes[i].value.tuples) :
                \A k \in 1..Len(self.axes[i].value.tuples[j].members) :
                    HasUniqueName(self.axes[i].value.tuples[j].members[k])
          /\ \/ a.skip_dimension_properties
             \/ MdxAxis_is_empty(self.axes[i].value)
             \/ LET axis_properties == DictGetOr(self.axes_properties, self.axes[i].key,
                                                 MdxPropertiesTuple_empty)
                IN  \A j \in 1..Len(axis_properties.members) :
                        HasUniqueName(axis_properties.members[j])

\* to_mdx reads the builder and leaves it as it is; reading the unique_name of
\* an object that has none raises AttributeError
to_mdx(self, a) ==
    IF CanRender(self, a)
    THEN [self |-> self, raised |-> FALSE, ret |-> to_mdx_text(self, a)]
    ELSE [self |-> self, raised |-> TRUE, ret |-> <<>>]

(***************************************************************************)
(* State: the builder under construction, the last builder call, and the   *)
(* last call of a function of the library.                                 *)
(***************************************************************************)
NoCall == [fn |-> "none", in |-> <<>>, out |-> <<>>, raised |-> FALSE]

\* the last builder call: the method, its axis and other arguments, whether it
\* raised, what it returned, and (for to_mdx) whether it is the first such call
\* or directly repeats a to_mdx with the same arguments
NoLast == [op |-> "none", axis |-> -1, arg |-> <<>>, raised |-> FALSE, ret |-> <<>>, nth |-> 0]

Called(op, axis, arg, r) ==
    [op |-> op, axis |-> axis, arg |-> arg, raised |-> r.raised, ret |-> r.ret, nth |-> 1]

(***************************************************************************)
(* The specification of the builder: any sequence of calls on one builder, *)
(* with arguments drawn from small pools.                                  *)
(***************************************************************************)
\* the most a builder holds: entries of its lists, flags set, and axes
\* created beyond position 0
MaxSize == 4

Positions == 0..MaxAxis

TheCube == <<"B", " ", "a">>

M1 == [dimension |-> <<"a">>, hierarchy |-> <<"a">>, element |-> <<"B">>,
       unique_name |-> <<"[", "a", "]", ".", "[", "a", "]", ".", "[", "b", "]">>]

S1 == Tm1SubsetAllHierarchySet(<<"B">>, <<>>)

CM1 == [dimension |-> <<"a">>, hierarchy |-> <<"a">>, element |-> <<"a">>,
        unique_name |-> <<"[", "a", "]", ".", "[", "a", "]", ".", "[", "a", "]">>,
        calculation |-> <<"[", "b", "]", ".">> \o MdxTuple_to_mdx(MdxTuple(<<M1>>))]

\* arguments of add_set_to_axis: a set, and a tuple given by mistake
SetArgs == {SetArg(S1), TupleArg(MdxTuple(<<M1>>))}

\* arguments of add_member_tuple_to_axis: a Member, and a string that is no
\* unique name
TupleArgs == {<<MemberArg(M1)>>, <<StrArg(<<"a">>)>>}

\* keyword arguments of to_mdx
ToMdxArgs ==
    {[head_columns |-> None, head_rows |-> None, tail_columns |-> None, tail_rows |-> None,
      skip_dimension_properties |-> FALSE],
     [head_columns |-> IntArg(1), head_rows |-> None, tail_columns |-> None,
      tail_rows |-> IntArg(0), skip_dimension_properties |-> TRUE]}

RECURSIVE AxesSize(_)
AxesSize(axes) ==
    IF axes = <<>> THEN 0
    ELSE Len(axes[1].value.tuples) + Len(axes[1].value.dim_sets)
         + (IF axes[1].value.non_empty THEN 1 ELSE 0)
         + (IF axes[1].key # 0 THEN 1 ELSE 0) + AxesSize(Tail(axes))

Size(self) ==
    AxesSize(self.axes) + Len(self._where.members) + Len(self.calculated_members)
        + (IF self._tm1_ignore_bad_tuples THEN 1 ELSE 0)

\* the builder after a call, kept within the bounds
Becomes(r) ==
    /\ Size(r.self) <= MaxSize
    /\ builder' = r.self

NonEmpty(axis) ==
    /\ LET r == non_empty(builder, axis)
       IN  Becomes(r) /\ last' = Called("non_empty", axis, <<>>, r)
    /\ UNCHANGED <<call, SHORT_NOTATION>>

AddSetToAxis(axis, mdx_set) ==
    /\ LET r == add_set_to_axis(builder, axis, mdx_set)
       IN  Becomes(r) /\ last' = Called("add_set_to_axis", axis, mdx_set, r)
    /\ UNCHANGED <<call, SHORT_NOTATION>>

AddMemberTupleToAxis(axis, args) ==
    /\ LET r == add_member_tuple_to_axis(builder, axis, args)
       IN  Becomes(r) /\ last' = Called("add_member_tuple_to_axis", axis, args, r)
    /\ UNCHANGED <<call, SHORT_NOTATION>>

AddEmptySetToAxis(axis) ==
    /\ LET r == add_empty_set_to_axis(builder, axis)
       IN  Becomes(r) /\ last' = Called("add_empty_set_to_axis", axis, <<>>, r)
    /\ UNCHANGED <<call, SHORT_NOTATION>>

AddMemberToWhere(member) ==
    /\ LET r == add_member_to_where(builder, member)
       IN  Becomes(r) /\ last' = Called("add_member_to_where", -1, member, r)
    /\ UNCHANGED <<call, SHORT_NOTATION>>

WithMember(member) ==
    /\ LET r == with_member(builder, member)
       IN  Becomes(r) /\ last' = Called("with_member", -1, member, r)
    /\ UNCHANGED <<call, SHORT_NOTATION>>

Tm1IgnoreBadTuples ==
    /\ LET r == tm1_ignore_bad_tuples(builder, TRUE)
       IN  Becomes(r) /\ last' = Called("tm1_ignore_bad_tuples", -1, <<>>, r)
    /\ UNCHANGED <<call, SHORT_NOTATION>>

ToMdx(a) ==
    /\ LET r == to_mdx(builder, a)
       IN  /\ Becomes(r)
           /\ last' = [Called("to_mdx", -1, a, r) EXCEPT
                          !.nth = IF last.op = "to_mdx" /\ last.arg = a THEN 2 ELSE 1]
    /\ UNCHANGED <<call, SHORT_NOTATION>>

Init ==
    /\ builder = MdxBuilder(TheCube)
    /\ last = NoLast
    /\ call = NoCall
    /\ SHORT_NOTATION = FALSE

Next ==
    \/ \E axis \in Positions : NonEmpty(axis)
    \/ \E axis \in Positions, mdx_set \in SetArgs : AddSetToAxis(axis, mdx_set)
    \/ \E axis \in Positions, args \in TupleArgs : AddMemberTupleToAxis(axis, args)
    \/ \E axis \in Positions : AddEmptySetToAxis(axis)
    \/ AddMemberToWhere(MemberArg(M1))
    \/ WithMember(CM1)
    \/ Tm1IgnoreBadTuples
    \/ \E a \in ToMdxArgs : ToMdx(a)

Spec == Init /\ [][Next]_vars

(***************************************************************************)
(* The specification of normalize: the name is drawn, normalize is applied *)
(* to it, and applied once more to its own result.                         *)
(***************************************************************************)
Normalize ==
    /\ call.fn = "input"
    /\ call' = [fn |-> "normalize", in |-> call.in, out |-> normalize(call.in),
                raised |-> FALSE]
    /\ UNCHANGED <<builder, last, SHORT_NOTATION>>

NormalizeAgain ==
    /\ call.fn = "normalize"
    /\ call' = [fn |-> "normalize_twice", in |-> call.in,
                out |-> <<call.out, normalize(call.out)>>, raised |-> FALSE]
    /\ UNCHANGED <<builder, last, SHORT_NOTATION>>

InitNormalize ==
    /\ builder = MdxBuilder(TheCube)
    /\ last = NoLast
    /\ SHORT_NOTATION = FALSE
    /\ \E name \in Names : call = [fn |-> "input", in |-> name, out |-> <<>>, raised |-> FALSE]

NextNormalize == Normalize \/ NormalizeAgain

SpecNormalize == InitNormalize /\ [][NextNormalize]_vars

(***************************************************************************)
(* The specification of Member: coordinates are drawn, Member.of builds a  *)
(* member from them, and Member.of parses that member's unique name.       *)
(***************************************************************************)
MemberOf ==
    /\ call.fn = "input"
    /\ LET r == Member_of(call.in)
       IN  call' = [fn |-> "Member.of", in |-> call.in, out |-> r.ret, raised |-> r.raised]
    /\ UNCHANGED <<builder, last, SHORT_NOTATION>>

MemberOfUniqueName ==
    /\ call.fn = "Member.of"
    /\ ~call.raised
    /\ LET r == Member_of(<<call.out.unique_name>>)
       IN  call' = [fn |-> "Member.of(unique_name)", in |-> call.out, out |-> r.ret,
                    raised |-> r.raised]
    /\ UNCHANGED <<builder, last, SHORT_NOTATION>>

InitMember ==
    /\ builder = MdxBuilder(TheCube)
    /\ last = NoLast
    /\ SHORT_NOTATION \in BOOLEAN
    /\ \E d \in PartNames, h \in PartNames, e \in PartNames, n \in 2..3 :
          call = [fn |-> "input", in |-> IF n = 2 THEN <<d, e>> ELSE <<d, h, e>>,
                  out |-> <<>>, raised |-> FALSE]

NextMember == MemberOf \/ MemberOfUniqueName

SpecMember == InitMember /\ [][NextMember]_vars

(***************************************************************************)
(* The specification of the nodes that embed a cube or an attribute name:  *)
(* raw names are drawn, and one constructor is applied and rendered.       *)
(***************************************************************************)
T1 == MdxTuple(<<M1>>)

DefaultArgs ==
    [head_columns |-> None, head_rows |-> None, tail_columns |-> None, tail_rows |-> None,
     skip_dimension_properties |-> FALSE]

\* the call of fn on the drawn names, rendered to text
Render(fn, text) ==
    /\ call.fn = "input"
    /\ call' = [fn |-> fn, in |-> call.in, out |-> text, raised |-> FALSE]
    /\ UNCHANGED <<builder, last, SHORT_NOTATION>>

\* the set the wrapping nodes are applied to
Underlying == Tm1SubsetAllHierarchySet(call.in.dimension, <<>>)

FromCube == Render("MdxBuilder", to_mdx(MdxBuilder(call.in.cube), DefaultArgs).ret)

FilterByCellValue ==
    Render("filter_by_cell_value",
           set_to_mdx(FilterByCellValueHierarchySet(Underlying, call.in.cube, T1, <<"=">>,
                                                    IntArg(1))))

FilterByInstrCall ==
    Render("filter_by_instr",
           set_to_mdx(FilterByInstr(Underlying, call.in.cube, T1, <<"B">>, <<">">>,
                                    StrArg(<<"0">>), TRUE)))

OrderCall ==
    Render("order", set_to_mdx(OrderByCellValueHierarchySet(Underlying, call.in.cube, T1, "BASC")))

TopCount ==
    Render("top_count", set_to_mdx(TopCountHierarchySet(Underlying, call.in.cube, T1, IntArg(2))))

BottomCount ==
    Render("bottom_count",
           set_to_mdx(BottomCountHierarchySet(Underlying, call.in.cube, T1, IntArg(2))))

Avg ==
    Render("CalculatedMember.avg",
           CalculatedMember_to_mdx(CalculatedMember_avg(<<"a">>, <<"a">>, <<"a">>, call.in.cube,
                                                        Underlying, T1)))

Sum ==
    Render("CalculatedMember.sum",
           CalculatedMember_to_mdx(CalculatedMember_sum(<<"a">>, <<"a">>, <<"a">>, call.in.cube,
                                                        Underlying, T1)))

Lookup ==
    Render("CalculatedMember.lookup",
           CalculatedMember_to_mdx(CalculatedMember_lookup(<<"a">>, <<"a">>, <<"a">>,
                                                           call.in.cube, T1)))

LookupAttribute ==
    Render("CalculatedMember.lookup_attribute",
           CalculatedMember_to_mdx(CalculatedMember_lookup_attribute(
               <<"a">>, <<"a">>, <<"a">>, call.in.dimension, call.in.attribute)))

FilterByAttribute ==
    Render("filter_by_attribute",
           set_to_mdx(FilterByAttributeHierarchySet(Underlying, call.in.attribute,
                                                    <<StrArg(<<"a">>)>>, <<"=">>)))

InitNodes ==
    /\ builder = MdxBuilder(TheCube)
    /\ last = NoLast
    /\ SHORT_NOTATION = FALSE
    /\ \E cube \in PartNames, dimension \in PartNames, attribute \in PartNames :
          call = [fn |-> "input",
                  in |-> [cube |-> cube, dimension |-> dimension, attribute |-> attribute],
                  out |-> <<>>, raised |-> FALSE]

NextNodes ==
    \/ FromCube
    \/ FilterByCellValue
    \/ FilterByInstrCall
    \/ OrderCall
    \/ TopCount
    \/ BottomCount
    \/ Avg
    \/ Sum
    \/ Lookup
    \/ LookupAttribute
    \/ FilterByAttribute

SpecNodes == InitNodes /\ [][NextNodes]_vars

(***************************************************************************)
(* Properties of normalize (SpecNormalize).                                *)
(***************************************************************************)
UpperCase == {"A", "B", "C"}

\* the reference mapping of one character
RefChar(c) ==
    IF c = " " THEN <<>>
    ELSE IF c = "]" THEN <<"]", "]">>
    ELSE IF c \in UpperCase THEN <<lower_char(c)>>
    ELSE <<c>>

RECURSIVE RefNormalize(_)
RefNormalize(s) == IF s = <<>> THEN <<>> ELSE RefChar(s[1]) \o RefNormalize(Tail(s))

\* C6: normalize(name) never fails and equals the reference mapping applied
\* character by character (letters folded to lower case, spaces removed,
\* every ']' doubled); so its result holds no space, no upper-case letter and
\* twice as many ']' as the name.
C6_NormalizeIsReferenceMapping ==
    call.fn = "normalize" =>
        /\ ~call.raised
        /\ call.out = RefNormalize(call.in)
        /\ \A i \in 1..Len(call.out) : call.out[i] # " " /\ call.out[i] \notin UpperCase
        /\ CountChar(call.out, "]") = 2 * CountChar(call.in, "]")

\* a name holding an upper-case letter, a space and a ']' has been normalized
C6_Witness ==
    /\ call.fn = "normalize"
    /\ CountChar(call.in, "B") > 0
    /\ CountChar(call.in, " ") > 0
    /\ CountChar(call.in, "]") > 0

\* C8: normalize(normalize(x)) = normalize(x) for every x without ']', and
\* normalize(normalize(x)) # normalize(x) for every x with at least one ']'.
C8_IdempotentExceptEscaping ==
    call.fn = "normalize_twice" =>
        IF CountChar(call.in, "]") = 0
        THEN call.out[2] = call.out[1]
        ELSE call.out[2] # call.out[1]

\* a name with an upper-case letter and a space and no ']' was normalized
\* twice, and the first pass changed it
C8_Witness ==
    /\ call.fn = "normalize_twice"
    /\ CountChar(call.in, "]") = 0
    /\ CountChar(call.in, "B") > 0
    /\ CountChar(call.in, " ") > 0
    /\ call.out[1] # call.in
    /\ call.out[2] = call.out[1]

(***************************************************************************)
(* Properties of Member (SpecMember).                                      *)
(***************************************************************************)
\* C7: for every Member m built by Member.of(dimension, element) or
\* Member.of(dimension, hierarchy, element) from any raw names,
\* Member.of(m.unique_name) succeeds and returns a Member whose unique name
\* is m.unique_name.
C7_RoundTrip ==
    call.fn = "Member.of(unique_name)" =>
        /\ ~call.raised
        /\ call.out.unique_name = call.in.unique_name

(***************************************************************************)
(* Properties of the names embedded in bracketed tokens (SpecNodes).       *)
(***************************************************************************)
\* whether the text holds part as a contiguous run of tokens
Contains(text, part) == str_find(text, part) # -1

CubeFunctions ==
    {"filter_by_cell_value", "filter_by_instr", "order", "top_count", "bottom_count",
     "CalculatedMember.avg", "CalculatedMember.sum", "CalculatedMember.lookup"}

\* C9: every cube name that appears in the output as a bracketed token is the
\* normalize of the raw cube name: in the builder's FROM clause the text ends
\* with FROM [normalize(cube)], and in the sets and calculations that take a
\* cube the token before the tuple is [normalize(cube)].
C9_CubeTokenIsNormalized ==
    /\ call.fn = "MdxBuilder" =>
          str_slice(call.out, str_find(call.out, <<"FROM ">>), Len(call.out))
              = <<"FROM ", "[">> \o normalize(call.in.cube) \o <<"]">>
    /\ call.fn \in CubeFunctions =>
          Contains(call.out, <<"[">> \o normalize(call.in.cube) \o <<"]", ".", "(">>)

\* the attribute cube and the attribute of it, as documented
AttributeToken(dimension, attribute) ==
    <<"[">> \o ELEMENT_ATTRIBUTE_PREFIX \o normalize(dimension) \o <<"]", ".", "(", "[">>
        \o ELEMENT_ATTRIBUTE_PREFIX \o normalize(dimension) \o <<"]", ".", "[">>
        \o normalize(attribute) \o <<"]", ")">>

\* C10: in the text of filter_by_attribute and of
\* CalculatedMember.lookup_attribute the attribute cube is the reserved prefix
\* followed by normalize(dimension), and the attribute in brackets is
\* normalize(attribute).
C10_AttributeTokensAreNormalized ==
    call.fn \in {"filter_by_attribute", "CalculatedMember.lookup_attribute"} =>
        Contains(call.out, AttributeToken(call.in.dimension, call.in.attribute))

(***************************************************************************)
(* Properties of the builder (Spec).                                       *)
(***************************************************************************)
HasSets(self, axis) == DictHas(self.axes, axis) /\ DictGet(self.axes, axis).dim_sets # <<>>

HasTuples(self, axis) == DictHas(self.axes, axis) /\ DictGet(self.axes, axis).tuples # <<>>

HasContent(self, axis) == HasSets(self, axis) \/ HasTuples(self, axis)

\* the axis keeps its tuple list and its set list from before to after
SameLists(before, after, axis) ==
    /\ DictHas(after.axes, axis)
    /\ DictGet(after.axes, axis).tuples = DictGet(before.axes, axis).tuples
    /\ DictGet(after.axes, axis).dim_sets = DictGet(before.axes, axis).dim_sets

\* C1: adding a tuple to an axis that holds at least one set, or a set to an
\* axis that holds at least one tuple, fails at that call, whatever the
\* argument, and leaves the axis's tuple list and set list as they were.
C1_Step ==
    /\ (last'.op = "add_member_tuple_to_axis" /\ HasSets(builder, last'.axis)) =>
          (last'.raised /\ SameLists(builder, builder', last'.axis))
    /\ (last'.op = "add_set_to_axis" /\ HasTuples(builder, last'.axis)) =>
          (last'.raised /\ SameLists(builder, builder', last'.axis))

C1_MixingTuplesAndSetsFails == [][C1_Step]_vars

\* a Member was offered as a tuple to an axis that holds a set, and the call
\* raised
C1_Witness ==
    /\ last.op = "add_member_tuple_to_axis"
    /\ last.arg = <<MemberArg(M1)>>
    /\ last.raised
    /\ HasSets(builder, last.axis)

\* the text of to_mdx between "SELECT\r\n" and "\r\nFROM"
AxesText(text) ==
    str_slice(text, str_find(text, <<"SELECT", "\r\n">>) + 2, str_find(text, <<"\r\n", "FROM ">>))

\* the entries of self.axes that have content, in the dict's order
ContentAxes(self) == SelectSeq(self.axes, LAMBDA e : ~MdxAxis_is_empty(e.value))

\* the head and tail to_mdx passes for a position
HeadOf(a, position) ==
    IF position = 0 THEN a.head_columns ELSE IF position = 1 THEN a.head_rows ELSE None

TailOf(a, position) ==
    IF position = 0 THEN a.tail_columns ELSE IF position = 1 THEN a.tail_rows ELSE None

\* C2: an axis without content is skipped by to_mdx: the text between
\* "SELECT\r\n" and "\r\nFROM" is the clauses of the axes that have content
\* joined by ",\r\n", with no separator for an empty axis.
C2_EmptyAxesAreSkipped ==
    (last.op = "to_mdx" /\ ~last.raised) =>
        AxesText(last.ret) =
            str_join(<<",", "\r\n">>,
                     [i \in 1..Len(ContentAxes(builder)) |->
                         _axis_mdx(builder, ContentAxes(builder)[i].key,
                                   HeadOf(last.arg, ContentAxes(builder)[i].key),
                                   TailOf(last.arg, ContentAxes(builder)[i].key),
                                   last.arg.skip_dimension_properties)])

\* the positions named after the ON keywords of a text, in the order of the text
RECURSIVE OnPositions(_)
OnPositions(text) ==
    IF Len(text) < 2 THEN <<>>
    ELSE IF text[1] = "ON "
         THEN <<CHOOSE p \in Positions : ToString(p) = text[2]>> \o OnPositions(Tail(text))
         ELSE OnPositions(Tail(text))

\* C3: to_mdx emits the axis clauses in ascending order of position, in
\* whatever order the positions were first used.
C3_AxesInAscendingOrder ==
    (last.op = "to_mdx" /\ ~last.raised) =>
        LET ps == OnPositions(last.ret)
        IN  \A i \in 1..Len(ps), j \in 1..Len(ps) : i < j => ps[i] < ps[j]

\* C4: to_mdx leaves the builder (cube, axes, flags, properties, slicer,
\* calculated members) as it was, and a call that directly repeats a to_mdx
\* with the same arguments returns the same text.
C4_Step ==
    last'.op = "to_mdx" =>
        /\ ~last'.raised
        /\ builder' = builder
        /\ last'.nth = 2 => last'.ret = last.ret

C5_Step ==
    last'.op = "add_empty_set_to_axis" =>
        /\ last'.raised <=> HasContent(builder, last'.axis)
        /\ ~last'.raised =>
              Contains(to_mdx(builder', DefaultArgs).ret,
                       <<"{}", " ", "DIMENSION PROPERTIES", " ", "MEMBER_NAME", " ", "ON ",
                         ToString(last'.axis)>>)

C5_EmptySetFailsOnlyOnContent == [][C5_Step]_vars

(***************************************************************************)
(* The specification of Member.of over argument lists of every length:     *)
(* no argument, one string (bracketed parts joined by "].[", or a bare      *)
(* name), two or three coordinates, and more than three.                   *)
(***************************************************************************)
\* the most bracketed parts of a one-argument string
MaxSegments == 4
\* the most arguments given to Member.of
MaxArgs == 4

\* the text between the brackets of a part
Segments == {<<>>, <<"a">>, <<"B">>, <<"]">>, <<".">>, <<"[">>}

\* raw coordinates, two of which differ only in case
Coordinates == {<<"a">>, <<"B">>, <<"b">>, <<"B", " ">>, <<"]">>}

\* '[' + parts joined by '].[' + ']'
Bracketed(parts) == <<"[">> \o str_join(PartSep, parts) \o <<"]">>

RECURSIVE TuplesOf(_, _)
\* the sequences of length n over S
TuplesOf(S, n) ==
    IF n = 0 THEN {<<>>} ELSE {Append(t, x) : t \in TuplesOf(S, n - 1), x \in S}

\* the argument lists given to Member.of
ArgLists ==
    {<<>>}
        \cup {<<Bracketed(parts)>> : parts \in UNION {TuplesOf(Segments, n) : n \in 1..MaxSegments}}
        \cup {<< <<>> >>, << <<"a">> >>}
        \cup TuplesOf(Coordinates, 2) \cup TuplesOf(Coordinates, 3)
        \cup {[i \in 1..n |-> <<"a">>] : n \in 4..MaxArgs}

\* Member.build_unique_name called on three coordinates
BuildUniqueName ==
    /\ call.fn = "input"
    /\ Len(call.in) = 3
    /\ call' = [fn |-> "build_unique_name", in |-> call.in,
                out |-> build_unique_name(call.in[1], call.in[2], call.in[3]),
                raised |-> FALSE]
    /\ UNCHANGED <<builder, last, SHORT_NOTATION>>

InitMemberOf ==
    /\ builder = MdxBuilder(TheCube)
    /\ last = NoLast
    /\ SHORT_NOTATION \in BOOLEAN
    /\ \E args \in ArgLists : call = [fn |-> "input", in |-> args, out |-> <<>>, raised |-> FALSE]

NextMemberOf == MemberOf \/ MemberOfUniqueName \/ BuildUniqueName

SpecMemberOf == InitMemberOf /\ [][NextMemberOf]_vars

(***************************************************************************)
(* Properties of Member.of and build_unique_name (SpecMemberOf).           *)
(***************************************************************************)
\* the number of places where the separator '].[' occurs in s
Separators(s) == Cardinality({i \in 0..Len(s) : OccursAt(s, PartSep, i)})

\* the coordinates a member was built from
Coords(m) == <<m.dimension, m.hierarchy, m.element>>

\* C11: Member.of accepts 1, 2 or 3 arguments and fails for 0 or for 4 or
\* more; with one argument s it fails exactly when the number of '].['
\* separators in s is neither 1 nor 2, parses '[A].[B]' as (A, A, B) and
\* '[A].[B].[C]' as (A, B, C); with two arguments (d, e) it yields (d, d, e).
C11_MemberOfArities ==
    call.fn = "Member.of" =>
        /\ Len(call.in) \notin 1..3 => call.raised
        /\ Len(call.in) \in 2..3 => ~call.raised
        /\ Len(call.in) = 1 => (call.raised <=> Separators(call.in[1]) \notin {1, 2})
        /\ \A A \in Segments, B \in Segments :
              call.in = <<Bracketed(<<A, B>>)>> =>
                  ~call.raised /\ Coords(call.out) = <<A, A, B>>
        /\ \A A \in Segments, B \in Segments, C \in Segments :
              call.in = <<Bracketed(<<A, B, C>>)>> =>
                  ~call.raised /\ Coords(call.out) = <<A, B, C>>
        /\ Len(call.in) = 2 => Coords(call.out) = <<call.in[1], call.in[1], call.in[2]>>

\* a three-part unique name whose element is a closing bracket was parsed
C11_Witness ==
    /\ call.fn = "Member.of"
    /\ call.in = <<Bracketed(<< <<"a">>, <<"B">>, <<"]">> >>)>>
    /\ ~call.raised
    /\ Coords(call.out) = << <<"a">>, <<"B">>, <<"]">> >>

\* C12: build_unique_name(dimension, hierarchy, element) returns the collapsed
\* form '[dim].[elem]' exactly when SHORT_NOTATION is set and
\* normalize(dimension) = normalize(hierarchy), and '[dim].[hier].[elem]' in
\* every other case, each part being the normalized name.
C12_ShortNotationAfterNormalization ==
    call.fn = "build_unique_name" =>
        LET dimension == call.in[1]
            hierarchy == call.in[2]
            element == call.in[3]
        IN  call.out =
                IF SHORT_NOTATION /\ normalize(dimension) = normalize(hierarchy)
                THEN Bracketed(<<normalize(dimension), normalize(element)>>)
                ELSE Bracketed(<<normalize(dimension), normalize(hierarchy), normalize(element)>>)

(***************************************************************************)
(* Equality and hashing of members, src/mdxpy/mdx.py:126.                  *)
(***************************************************************************)
Member___eq__(self, other) == self.unique_name = other.unique_name

\* the code point of a character, as far as the names of the model go
CharCode(c) ==
    CASE c = "a" -> 97 [] c = "b" -> 98 [] c = "B" -> 66 [] c = " " -> 32
      [] c = "[" -> 91 [] c = "]" -> 93 [] c = "." -> 46 [] OTHER -> 63

\* hash(str): a number computed from the characters of the string alone
str_hash(s) ==
    LET RECURSIVE upto(_)
        upto(n) == IF n = 0 THEN 0 ELSE (31 * upto(n - 1) + CharCode(s[n])) % 65536
    IN  upto(Len(s))

Member___hash__(self) == str_hash(self.unique_name)

(***************************************************************************)
(* The specification of member equality: two objects of the Member family  *)
(* are constructed from drawn coordinates and compared.                    *)
(***************************************************************************)
MemberKinds == {"Member", "DimensionProperty", "CalculatedMember"}

\* coordinates that differ in case or by a space only
PairCoordinates ==
    {<<d, h, e>> : d \in {<<"B">>, <<"b">>}, h \in {<<"B">>, <<"b">>},
                   e \in {<<"a">>, <<"a", " ">>}}

\* the constructor of the kind applied to the coordinates
Construct(kind, c) ==
    CASE kind = "Member" -> Member(c[1], c[2], c[3])
      [] kind = "DimensionProperty" -> DimensionProperty(c[1], c[2], c[3])
      [] kind = "CalculatedMember" ->
             [f \in {"dimension", "hierarchy", "element", "unique_name"} |->
                 CalculatedMember(c[1], c[2], c[3], <<"1">>)[f]]

ConstructPair ==
    /\ call.fn = "input"
    /\ call' = [fn |-> "constructed", in |-> call.in,
                out |-> [a |-> Construct(call.in[1].kind, call.in[1].coordinates),
                         b |-> Construct(call.in[2].kind, call.in[2].coordinates)],
                raised |-> FALSE]
    /\ UNCHANGED <<builder, last, SHORT_NOTATION>>

ComparePair ==
    /\ call.fn = "constructed"
    /\ call' = [fn |-> "__eq__", in |-> call.in,
                out |-> [a |-> call.out.a, b |-> call.out.b,
                         eq |-> Member___eq__(call.out.a, call.out.b),
                         hash_a |-> Member___hash__(call.out.a),
                         hash_b |-> Member___hash__(call.out.b)],
                raised |-> FALSE]
    /\ UNCHANGED <<builder, last, SHORT_NOTATION>>

InitMemberPair ==
    /\ builder = MdxBuilder(TheCube)
    /\ last = NoLast
    /\ SHORT_NOTATION \in BOOLEAN
    /\ \E ka \in MemberKinds, kb \in MemberKinds, ca \in PairCoordinates, cb \in PairCoordinates :
          call = [fn |-> "input",
                  in |-> << [kind |-> ka, coordinates |-> ca], [kind |-> kb, coordinates |-> cb] >>,
                  out |-> <<>>, raised |-> FALSE]

NextMemberPair == ConstructPair \/ ComparePair

SpecMemberPair == InitMemberPair /\ [][NextMemberPair]_vars

(***************************************************************************)
(* Properties of member equality (SpecMemberPair).                         *)
(***************************************************************************)
\* C13: for any two Members a and b (CalculatedMember and DimensionProperty
\* included) a == b if and only if their unique names are equal, and a == b
\* implies hash(a) == hash(b); so, SHORT_NOTATION being fixed, two Members
\* built from coordinates that normalize to the same tokens are equal.
C13_EqualityByUniqueName ==
    call.fn = "__eq__" =>
        /\ call.out.eq <=> (call.out.a.unique_name = call.out.b.unique_name)
        /\ call.out.eq => call.out.hash_a = call.out.hash_b
        /\ (/\ call.in[1].kind = call.in[2].kind
            /\ \A i \in 1..3 : normalize(call.in[1].coordinates[i])
                                   = normalize(call.in[2].coordinates[i]))
              => call.out.eq

(***************************************************************************)
(* Properties of the axes of the builder (Spec).                           *)
(***************************************************************************)
\* C14: in every state reached by any sequence of builder calls, successful
\* or failing, no axis holds both at least one tuple and at least one set.
C14_NoAxisHoldsTuplesAndSets ==
    \A i \in 1..Len(builder.axes) :
        ~(builder.axes[i].value.tuples # <<>> /\ builder.axes[i].value.dim_sets # <<>>)

\* a set was refused by an axis that holds a tuple, while another axis holds
\* a set
C14_Witness ==
    /\ last.op = "add_set_to_axis"
    /\ last.arg = SetArg(S1)
    /\ last.raised
    /\ HasTuples(builder, last.axis)
    /\ \E axis \in Positions : HasSets(builder, axis)

(***************************************************************************)
(* The specification of one MdxAxis: any sequence of add_tuple, add_set,   *)
(* set_non_empty and to_mdx on an axis that starts empty.  call.in holds   *)
(* the axis and the arguments of the last call.                            *)
(***************************************************************************)
\* the most tuples or sets on the axis
MaxAxisItems == 2

M2 == Member(<<"B">>, <<"a">>, <<"]">>)

T2 == MdxTuple(<<M1, M2>>)

S2 == Tm1SubsetAllHierarchySet(<<"a">>, <<"B">>)

\* values of head and tail: absent, zero, and positive
HeadValues == {None, IntArg(0), IntArg(1)}

TailValues == {None, IntArg(0), IntArg(2)}

AxisCalled(fn, axis, args, out, raised) ==
    [fn |-> fn, in |-> [axis |-> axis, args |-> args], out |-> out, raised |-> raised]

AxisAddTuple(mdx_tuple) ==
    /\ call.fn \in {"MdxAxis", "add_tuple", "add_set", "set_non_empty", "to_mdx"}
    /\ LET r == MdxAxis_add_tuple(call.in.axis, mdx_tuple)
       IN  /\ Len(r.self.tuples) <= MaxAxisItems
           /\ call' = AxisCalled("add_tuple", r.self, <<>>, <<>>, r.raised)
    /\ UNCHANGED <<builder, last, SHORT_NOTATION>>

AxisAddSet(mdx_set) ==
    /\ call.fn \in {"MdxAxis", "add_tuple", "add_set", "set_non_empty", "to_mdx"}
    /\ LET r == MdxAxis_add_set(call.in.axis, mdx_set)
       IN  /\ Len(r.self.dim_sets) <= MaxAxisItems
           /\ call' = AxisCalled("add_set", r.self, <<>>, <<>>, r.raised)
    /\ UNCHANGED <<builder, last, SHORT_NOTATION>>

AxisSetNonEmpty ==
    /\ call.fn \in {"MdxAxis", "add_tuple", "add_set", "set_non_empty", "to_mdx"}
    /\ call' = AxisCalled("set_non_empty", MdxAxis_set_non_empty(call.in.axis), <<>>, <<>>, FALSE)
    /\ UNCHANGED <<builder, last, SHORT_NOTATION>>

AxisToMdx(ignore_bad_tuples, head, tail) ==
    /\ call.fn \in {"MdxAxis", "add_tuple", "add_set", "set_non_empty", "to_mdx"}
    /\ call' = AxisCalled("to_mdx", call.in.axis,
                          [tm1_ignore_bad_tuples |-> ignore_bad_tuples,
                           head |-> head, tail |-> tail],
                          MdxAxis_to_mdx(call.in.axis, ignore_bad_tuples, head, tail),
                          FALSE)
    /\ UNCHANGED <<builder, last, SHORT_NOTATION>>

InitAxis ==
    /\ builder = MdxBuilder(TheCube)
    /\ last = NoLast
    /\ SHORT_NOTATION = FALSE
    /\ call = AxisCalled("MdxAxis", MdxAxis_empty, <<>>, <<>>, FALSE)

NextAxis ==
    \/ \E mdx_tuple \in {T1, T2} : AxisAddTuple(mdx_tuple)
    \/ \E mdx_set \in {SetArg(S1), SetArg(S2), TupleArg(T1)} : AxisAddSet(mdx_set)
    \/ AxisSetNonEmpty
    \/ \E flag \in BOOLEAN, head \in HeadValues, tail \in TailValues : AxisToMdx(flag, head, tail)

SpecAxis == InitAxis /\ [][NextAxis]_vars

(***************************************************************************)
(* Properties of MdxAxis.to_mdx (SpecAxis).                                *)
(***************************************************************************)
\* the body of an axis: its sets joined by ' * ', or its tuples joined by ','
\* inside braces
RefBody(axis) ==
    IF axis.dim_sets # <<>>
    THEN str_join(<<" * ">>, [i \in 1..Len(axis.dim_sets) |-> set_to_mdx(axis.dim_sets[i])])
    ELSE <<"{">> \o str_join(<<",">>, [i \in 1..Len(axis.tuples) |->
                                          MdxTuple_to_mdx(axis.tuples[i])]) \o <<"}">>

RefHead(body, h) == <<"{HEAD(">> \o body \o <<", ">> \o h.val \o <<")}">>

RefTail(body, t) == <<"{TAIL(">> \o body \o <<", ">> \o t.val \o <<")}">>

\* the reference rendering of an axis
RefAxis(axis, flag, head, tail) ==
    IF axis.dim_sets = <<>> /\ axis.tuples = <<>>
    THEN <<"{}">>
    ELSE (IF axis.non_empty THEN <<"NON EMPTY ">> ELSE <<>>)
         \o (IF flag THEN <<"TM1IGNORE_BADTUPLES ">> ELSE <<>>)
         \o (CASE head.type = "int" /\ tail.type = "int" ->
                      RefTail(RefHead(RefBody(axis), head), tail)
               [] head.type = "int" /\ tail.type # "int" -> RefHead(RefBody(axis), head)
               [] head.type # "int" /\ tail.type = "int" -> RefTail(RefBody(axis), tail)
               [] OTHER -> RefBody(axis))

\* C15: MdxAxis.to_mdx(tm1_ignore_bad_tuples, head, tail) equals the reference
\* rendering for every axis state and every argument combination: '{}' for an
\* empty axis; otherwise 'NON EMPTY ' if flagged, then 'TM1IGNORE_BADTUPLES '
\* if passed, then the body wrapped in HEAD when head is given and then in
\* TAIL when tail is given, a value of 0 counting as given.
C15_AxisRendering ==
    call.fn = "to_mdx" =>
        call.out = RefAxis(call.in.axis, call.in.args.tm1_ignore_bad_tuples,
                           call.in.args.head, call.in.args.tail)

\* an axis flagged non-empty with two tuples was rendered with the
\* bad-tuples flag, a head of 0 and a tail
C15_Witness ==
    /\ call.fn = "to_mdx"
    /\ call.in.axis.non_empty
    /\ Len(call.in.axis.tuples) = 2
    /\ call.in.args = [tm1_ignore_bad_tuples |-> TRUE, head |-> IntArg(0), tail |-> IntArg(2)]
    /\ call.out = <<"NON EMPTY ", "TM1IGNORE_BADTUPLES ", "{TAIL(", "{HEAD(", "{">>
                      \o MdxTuple_to_mdx(call.in.axis.tuples[1]) \o <<",">>
                      \o MdxTuple_to_mdx(call.in.axis.tuples[2])
                      \o <<"}", ", ", "0", ")}", ", ", "2", ")}">>

(***************************************************************************)
(* The specification of the dimension properties: a builder with a set on  *)
(* the columns and a tuple on the rows gets properties registered by       *)
(* add_properties and add_member_to_properties, and is rendered.           *)
(***************************************************************************)
\* the most properties registered, all positions together
MaxProperties == 3

P1 == DimensionProperty(<<"a">>, <<"a">>, <<"B">>)

P2 == DimensionProperty(<<"B">>, <<"a">>, <<"a">>)

\* arguments of add_properties: properties, a unique name, a string that is no
\* unique name, and an int after a property
PropertyArgLists ==
    {<<PropertyArg(P1)>>, <<PropertyArg(P2), PropertyArg(P1)>>, <<StrArg(P2.unique_name)>>,
     <<StrArg(<<"a">>)>>, <<PropertyArg(P1), IntArg(5)>>}

\* arguments of add_member_to_properties
PropertyArgs == {PropertyArg(P1), StrArg(P2.unique_name)}

RECURSIVE PropertiesCount(_)
PropertiesCount(axes_properties) ==
    IF axes_properties = <<>> THEN 0
    ELSE Len(axes_properties[1].value.members) + PropertiesCount(Tail(axes_properties))

AddProperties(axis, args) ==
    /\ LET r == add_properties(builder, axis, args)
       IN  /\ PropertiesCount(r.self.axes_properties) <= MaxProperties
           /\ builder' = r.self
           /\ last' = Called("add_properties", axis, args, r)
    /\ UNCHANGED <<call, SHORT_NOTATION>>

AddMemberToProperties(axis, member) ==
    /\ LET r == add_member_to_properties(builder, axis, member)
       IN  /\ PropertiesCount(r.self.axes_properties) <= MaxProperties
           /\ builder' = r.self
           /\ last' = Called("add_member_to_properties", axis, member, r)
    /\ UNCHANGED <<call, SHORT_NOTATION>>

InitProperties ==
    /\ builder = add_member_tuple_to_axis(
                     add_set_to_axis(MdxBuilder(TheCube), 0, SetArg(S1)).self,
                     1, <<MemberArg(M1)>>).self
    /\ last = NoLast
    /\ call = NoCall
    /\ SHORT_NOTATION = FALSE

NextProperties ==
    \/ \E axis \in 0..1, args \in PropertyArgLists : AddProperties(axis, args)
    \/ \E axis \in 0..1, member \in PropertyArgs : AddMemberToProperties(axis, member)
    \/ \E a \in ToMdxArgs : ToMdx(a)

SpecProperties == InitProperties /\ [][NextProperties]_vars

(***************************************************************************)
(* Properties of the axis clauses (SpecProperties).                        *)
(***************************************************************************)
\* the parts of a text between the occurrences of sep
RECURSIVE SplitOn(_, _)
SplitOn(text, sep) ==
    IF str_find(text, sep) = -1 THEN <<text>>
    ELSE <<str_slice(text, 0, str_find(text, sep))>>
             \o SplitOn(str_slice(text, str_find(text, sep) + Len(sep), Len(text)), sep)

\* the axis clauses of a text of to_mdx
Clauses(text) == SelectSeq(SplitOn(AxesText(text), <<",", "\r\n">>), LAMBDA c : c # <<>>)

\* the properties registered for a position, in registration order
Registered(self, position) ==
    IF DictHas(self.axes_properties, position)
    THEN DictGet(self.axes_properties, position).members
    ELSE <<>>

\* the clause of a position as documented
RefClause(self, position, a) ==
    LET text == MdxAxis_to_mdx(DictGet(self.axes, position), self._tm1_ignore_bad_tuples,
                               HeadOf(a, position), TailOf(a, position))
        registered == Registered(self, position)
        props == IF registered = <<>> THEN <<"MEMBER_NAME">>
                 ELSE str_join(<<",">>, [i \in 1..Len(registered) |-> registered[i].unique_name])
    IN  IF a.skip_dimension_properties
        THEN text \o <<" ", "ON ", ToString(position)>>
        ELSE text \o <<" ", "DIMENSION PROPERTIES", " ">> \o props
                  \o <<" ", "ON ", ToString(position)>>

\* C16: every axis clause of to_mdx is '<axis text> DIMENSION PROPERTIES
\* <props> ON <position>' when skip_dimension_properties is false, <props>
\* being the comma-joined unique names of the properties registered for the
\* position in registration order, duplicates kept, or MEMBER_NAME when none
\* is registered; when it is true the clause is '<axis text> ON <position>'
\* and 'DIMENSION PROPERTIES' appears nowhere in the text.
C16_AxisClauses ==
    (last.op = "to_mdx" /\ ~last.raised) =>
        /\ Clauses(last.ret) =
               [i \in 1..Len(ContentAxes(builder)) |->
                   RefClause(builder, ContentAxes(builder)[i].key, last.arg)]
        /\ last.arg.skip_dimension_properties =>
               \A i \in 1..Len(last.ret) : last.ret[i] # "DIMENSION PROPERTIES"

\* the builder was rendered with its properties: the same property twice and
\* then another one on the columns, none on the rows
C16_Witness ==
    /\ last.op = "to_mdx"
    /\ ~last.raised
    /\ ~last.arg.skip_dimension_properties
    /\ Registered(builder, 0) = <<P1, P2, P1>>
    /\ Registered(builder, 1) = <<>>
    /\ Len(Clauses(last.ret)) = 2

(***************************************************************************)
(* The specification of the slicer and the calculated members: a builder   *)
(* with a set on the columns gets calculated members by with_member and    *)
(* slicer members by where and add_member_to_where, and is rendered.       *)
(***************************************************************************)
CM2 == CalculatedMember_lookup(<<"B">>, <<"a">>, <<"a">>, <<"B">>, T1)

\* arguments of add_member_to_where: members, a unique name, a string that is
\* no unique name, and an int
WhereArgs ==
    {MemberArg(M1), MemberArg(M2), StrArg(M2.unique_name), StrArg(<<"a">>), IntArg(5)}

\* arguments of where
WhereArgLists ==
    {<<MemberArg(M2), MemberArg(M1)>>, <<MemberArg(M1), IntArg(5)>>, <<StrArg(M1.unique_name)>>,
     <<IntArg(5)>>, <<StrArg(<<"a">>)>>}

Where(args) ==
    /\ LET r == where(builder, args)
       IN  Becomes(r) /\ last' = Called("where", -1, args, r)
    /\ UNCHANGED <<call, SHORT_NOTATION>>

InitSlicer ==
    /\ builder = add_set_to_axis(MdxBuilder(TheCube), 0, SetArg(S1)).self
    /\ last = NoLast
    /\ call = NoCall
    /\ SHORT_NOTATION = FALSE

NextSlicer ==
    \/ \E member \in WhereArgs : AddMemberToWhere(member)
    \/ \E args \in WhereArgLists : Where(args)
    \/ \E member \in {CM1, CM2} : WithMember(member)
    \/ \E a \in ToMdxArgs : ToMdx(a)

SpecSlicer == InitSlicer /\ [][NextSlicer]_vars

(***************************************************************************)
(* Properties of the WITH block, the skeleton and the slicer (SpecSlicer). *)
(***************************************************************************)
\* whether text begins with part
StartsWith(text, part) == OccursAt(text, part, 0)

\* the declarations of the calculated members, each ended by a line end
RECURSIVE Declarations(_)
Declarations(members) ==
    IF members = <<>> THEN <<>>
    ELSE <<"MEMBER ">> \o members[1].unique_name \o <<" AS ">> \o members[1].calculation
             \o <<"\r\n">> \o Declarations(Tail(members))

\* C17: after any sequence of with_member calls the text of to_mdx starts with
\* 'WITH\r\n', then one 'MEMBER <unique name> AS <calculation>' line per
\* calculated member in registration order, each ended by '\r\n', then
\* 'SELECT'; with no calculated member it starts with 'SELECT' and holds no
\* WITH.
C17_WithBlock ==
    (last.op = "to_mdx" /\ ~last.raised) =>
        IF builder.calculated_members = <<>>
        THEN /\ StartsWith(last.ret, <<"SELECT">>)
             /\ \A i \in 1..Len(last.ret) : last.ret[i] # "WITH"
        ELSE StartsWith(last.ret, <<"WITH", "\r\n">> \o Declarations(builder.calculated_members)
                                      \o <<"SELECT">>)

\* a builder with two different calculated members was rendered
C17_Witness ==
    /\ last.op = "to_mdx"
    /\ ~last.raised
    /\ builder.calculated_members = <<CM2, CM1>>

\* the text of to_mdx from SELECT on
AfterWith(text) == str_slice(text, str_find(text, <<"SELECT">>), Len(text))

\* C18: after the optional WITH block the text of to_mdx is 'SELECT\r\n', the
\* axis clauses, '\r\nFROM [' normalize(cube) ']', and then '\r\nWHERE ' with
\* the slicer tuple '(m1,m2,...)' in the order the members were added if and
\* only if the slicer holds a member; with an empty slicer there is no WHERE.
C18_Skeleton ==
    (last.op = "to_mdx" /\ ~last.raised) =>
        /\ AfterWith(last.ret) =
               <<"SELECT", "\r\n">> \o mdx_axes(builder, last.arg)
                   \o <<"\r\n", "FROM ", "[">> \o normalize(TheCube) \o <<"]">>
                   \o (IF builder._where.members # <<>>
                       THEN <<"\r\n", "WHERE ", "(">>
                                \o str_join(<<",">>, [i \in 1..Len(builder._where.members) |->
                                                         builder._where.members[i].unique_name])
                                \o <<")">>
                       ELSE <<>>)
        /\ builder._where.members = <<>> =>
               \A i \in 1..Len(last.ret) : last.ret[i] # "WHERE "

\* a builder whose slicer holds two different members was rendered
C18_Witness ==
    /\ last.op = "to_mdx"
    /\ ~last.raised
    /\ builder._where.members = <<M2, M1>>
    /\ builder.calculated_members # <<>>

\* C19: where and add_member_to_where accept a unique-name string or a Member
\* and fail at the call for an argument of any other type, so the slicer
\* holds Members only.
C19_SlicerHoldsMembersOnly ==
    /\ \A i \in 1..Len(builder._where.members) : HasUniqueName(builder._where.members[i])
    /\ (last.op = "add_member_to_where" /\ last.arg.type \notin {"str", "Member"})
          => last.raised
    /\ (last.op = "where" /\ \E i \in 1..Len(last.arg) : last.arg[i].type \notin {"str", "Member"})
          => last.raised

(***************************************************************************)
(* The specification of the n-ary unions: a list of sets and the           *)
(* allow_duplicates flag are drawn, and MdxSet.unions or                   *)
(* MdxHierarchySet.unions is applied and rendered.                         *)
(***************************************************************************)
\* the most sets in a union
MaxSets == 3

S3 == StrHierarchySet(<<>>, <<>>, <<"{x}">>)

\* the result of a constructor, rendered unless it raised
Rendered(fn, r) ==
    /\ call.fn = "input"
    /\ call' = [fn |-> fn, in |-> call.in,
                out |-> IF r.raised THEN <<>> ELSE set_to_mdx(r.ret),
                raised |-> r.raised]
    /\ UNCHANGED <<builder, last, SHORT_NOTATION>>

SetUnions == Rendered("MdxSet.unions", MultiUnionSet(call.in.sets, call.in.allow_duplicates))

HierarchySetUnions ==
    Rendered("MdxHierarchySet.unions",
             MultiUnionHierarchySet(call.in.sets, call.in.allow_duplicates))

InitUnions ==
    /\ builder = MdxBuilder(TheCube)
    /\ last = NoLast
    /\ SHORT_NOTATION = FALSE
    /\ \E sets \in UNION {TuplesOf({S1, S2, S3}, n) : n \in 0..MaxSets},
          allow_duplicates \in BOOLEAN :
          call = [fn |-> "input",
                  in |-> [sets |-> sets, allow_duplicates |-> allow_duplicates],
                  out |-> <<>>, raised |-> FALSE]

NextUnions == SetUnions \/ HierarchySetUnions

SpecUnions == InitUnions /\ [][NextUnions]_vars

(***************************************************************************)
(* Properties of the unions (SpecUnions).                                  *)
(***************************************************************************)
\* the texts of the operands in list order with sep between neighbours
RECURSIVE Operands(_, _)
Operands(sets, sep) ==
    IF Len(sets) = 1 THEN set_to_mdx(sets[1])
    ELSE set_to_mdx(sets[1]) \o sep \o Operands(Tail(sets), sep)

\* C20: for every non-empty list of sets, MdxSet.unions and
\* MdxHierarchySet.unions render the operands' texts in list order inside one
\* outer '{...}', joined by ' + ' when allow_duplicates is false and by ','
\* when it is true.
C20_UnionRendering ==
    (call.fn \in {"MdxSet.unions", "MdxHierarchySet.unions"} /\ call.in.sets # <<>>) =>
        /\ ~call.raised
        /\ call.out = <<"{">>
                          \o Operands(call.in.sets,
                                      IF call.in.allow_duplicates THEN <<",">> ELSE <<" + ">>)
                          \o <<"}">>

\* three different sets were united by MdxSet.unions without duplicates
C20_Witness ==
    /\ call.fn = "MdxSet.unions"
    /\ call.in = [sets |-> <<S2, S3, S1>>, allow_duplicates |-> FALSE]
    /\ call.out = <<"{">> \o set_to_mdx(S2) \o <<" + ", "{x}", " + ">> \o set_to_mdx(S1) \o <<"}">>

(***************************************************************************)
(* The specification of the constructors that take a list: a list of sets, *)
(* a list of members and the allow_duplicates flag are drawn, and one of   *)
(* MdxHierarchySet.members, MdxSet.unions, MdxHierarchySet.unions and      *)
(* MdxSet.cross_joins is applied and rendered.                             *)
(***************************************************************************)
\* the members a list is drawn from: a Member, the unique name of one, and a
\* string that is no unique name
MemberArgs == {MemberArg(M1), StrArg(M2.unique_name), StrArg(<<"a">>)}

CrossJoins == Rendered("MdxSet.cross_joins", CrossJoinMdxSet(call.in.sets))

Members == Rendered("MdxHierarchySet.members", MdxHierarchySet_members(call.in.members))

InitComposite ==
    /\ builder = MdxBuilder(TheCube)
    /\ last = NoLast
    /\ SHORT_NOTATION = FALSE
    /\ \E sets \in UNION {TuplesOf({S1, S3}, n) : n \in 0..MaxSets},
          members \in UNION {TuplesOf(MemberArgs, n) : n \in 0..MaxSets},
          allow_duplicates \in BOOLEAN :
          call = [fn |-> "input",
                  in |-> [sets |-> sets, members |-> members,
                          allow_duplicates |-> allow_duplicates],
                  out |-> <<>>, raised |-> FALSE]

NextComposite == SetUnions \/ HierarchySetUnions \/ CrossJoins \/ Members

SpecComposite == InitComposite /\ [][NextComposite]_vars

(***************************************************************************)
(* Properties of the constructors that take a list (SpecComposite).        *)
(***************************************************************************)
\* C21: MdxHierarchySet.members([]), MdxSet.unions([]),
\* MdxHierarchySet.unions([]) and MdxSet.cross_joins([]) each raise at
\* construction: no node is returned, so nothing is left to fail at render
\* time.
C21_EmptyCompositeRaises ==
    /\ (call.fn \in {"MdxSet.unions", "MdxHierarchySet.unions", "MdxSet.cross_joins"}
            /\ call.in.sets = <<>>) => (call.raised /\ call.out = <<>>)
    /\ (call.fn = "MdxHierarchySet.members" /\ call.in.members = <<>>) =>
            (call.raised /\ call.out = <<>>)
    /\ (call.fn \in {"MdxSet.unions", "MdxHierarchySet.unions", "MdxSet.cross_joins"}
            /\ call.in.sets # <<>>) => (~call.raised /\ call.out # <<>>)

\* MdxSet.cross_joins was called with an empty list and raised
C21_Witness ==
    /\ call.fn = "MdxSet.cross_joins"
    /\ call.in.sets = <<>>
    /\ call.raised

(***************************************************************************)
(* The specification of the enums: a class and a string are drawn, the     *)
(* class is called with the string, and the member it returns is printed.  *)
(***************************************************************************)
\* the longest string drawn character by character
MaxEnumLen == 3

EnumAlphabet == {"A", "s", "C", " "}

EnumClasses == {"DescFlag", "Order", "ElementType"}

EnumNames == UNION {{EnumClass(cls)[i].name : i \in 1..Len(EnumClass(cls))} : cls \in EnumClasses}

\* the name with every second letter in lower case
MixedCase(name) == [i \in 1..Len(name) |-> IF i % 2 = 0 THEN lower_char(name[i]) ELSE name[i]]

\* the strings derived from a name: the name in three casings, with a space
\* at each place, with its underscores removed or turned into spaces, without
\* its last letter and with one letter more
Variants(name) ==
    {name, str_lower(name), MixedCase(name)}
        \cup {SubSeq(MixedCase(name), 1, k) \o <<" ">>
                  \o SubSeq(MixedCase(name), k + 1, Len(name)) : k \in 0..Len(name)}
        \cup {str_replace(name, <<"_">>, <<>>), str_replace(name, <<"_">>, <<" ">>),
              SubSeq(name, 1, Len(name) - 1), name \o <<"X">>}

EnumStrings ==
    SeqsUpTo(EnumAlphabet, MaxEnumLen)
        \cup UNION {Variants(name) : name \in EnumNames}
        \cup {<<"B", " ", "A", "s", "c">>}

ParseEnum ==
    /\ call.fn = "input"
    /\ LET r == EnumCall(call.in.cls, StrArg(call.in.value))
       IN  call' = [fn |-> "parse", in |-> call.in, out |-> r.ret, raised |-> r.raised]
    /\ UNCHANGED <<builder, last, SHORT_NOTATION>>

StrEnum ==
    /\ call.fn = "parse"
    /\ ~call.raised
    /\ call' = [fn |-> "str", in |-> [cls |-> call.in.cls, value |-> call.in.value,
                                      member |-> call.out],
                out |-> Enum___str__(call.out), raised |-> FALSE]
    /\ UNCHANGED <<builder, last, SHORT_NOTATION>>

InitEnum ==
    /\ builder = MdxBuilder(TheCube)
    /\ last = NoLast
    /\ SHORT_NOTATION = FALSE
    /\ \E cls \in EnumClasses, value \in EnumStrings :
          call = [fn |-> "input", in |-> [cls |-> cls, value |-> value],
                  out |-> <<>>, raised |-> FALSE]

NextEnum == ParseEnum \/ StrEnum

SpecEnum == InitEnum /\ [][NextEnum]_vars

(***************************************************************************)
(* Properties of the enums (SpecEnum).                                     *)
(***************************************************************************)
\* the string without its spaces
Stripped(s) == SelectSeq(s, LAMBDA c : c # " ")

SameIgnoringCase(a, b) ==
    /\ Len(a) = Len(b)
    /\ \A i \in 1..Len(a) : lower_char(a[i]) = lower_char(b[i])

\* the members of the class whose name is the string, spaces and case ignored
Matches(cls, s) ==
    {i \in 1..Len(EnumClass(cls)) : SameIgnoringCase(Stripped(s), EnumClass(cls)[i].name)}

IsUpperCase(name) == \A i \in 1..Len(name) : name[i] = "_" \/ lower_char(name[i]) # name[i]

\* C23: for each of Order, ElementType and DescFlag and every string s,
\* parsing s returns the member whose name equals s with its spaces removed,
\* compared case-insensitively, and raises for every other string; str(M) is
\* M's upper-case name, and ElementType has the codes NUMERIC = 1, STRING = 2,
\* CONSOLIDATED = 3.
C23_EnumParsing ==
    /\ call.fn = "parse" =>
          IF Matches(call.in.cls, call.in.value) = {}
          THEN call.raised
          ELSE /\ ~call.raised
               /\ \E i \in Matches(call.in.cls, call.in.value) :
                     call.out = EnumClass(call.in.cls)[i]
    /\ call.fn = "str" => (call.out = call.in.member.name /\ IsUpperCase(call.out))
    /\ (call.fn = "str" /\ call.in.cls = "ElementType") =>
          call.in.member.value =
              CASE call.out = <<"N", "U", "M", "E", "R", "I", "C">> -> 1
                [] call.out = <<"S", "T", "R", "I", "N", "G">> -> 2
                [] call.out = <<"C", "O", "N", "S", "O", "L", "I", "D", "A", "T", "E", "D">> -> 3

\* Order('B Asc') returned Order.BASC
C23_Witness ==
    /\ call.fn = "parse"
    /\ call.in = [cls |-> "Order", value |-> <<"B", " ", "A", "s", "c">>]
    /\ ~call.raised
    /\ call.out = [name |-> <<"B", "A", "S", "C">>, value |-> 3]

(***************************************************************************)
(* The specification of descendants: a member, a level or depth and a flag *)
(* are drawn, each of the last two possibly absent, and                    *)
(* MdxHierarchySet.descendants is applied and rendered.                    *)
(***************************************************************************)
\* the greatest depth drawn
MaxDepth == 2

DescendantsMembers == {MemberArg(M1), MemberArg(M2), StrArg(M2.unique_name), StrArg(<<"a">>)}

DescendantsLevels ==
    {None} \cup {IntArg(n) : n \in 0..MaxDepth}
        \cup {LevelArg(LevelNumberExpression(IntArg(2), <<"B">>, <<"a">>)),
              LevelArg(LevelNameExpression(<<"a">>, <<"B">>, <<>>)),
              LevelArg(MemberLevelExpression(M1))}

DescendantsFlags ==
    {None, EnumArg("DescFlag", DescFlag[1]), StrArg(<<"L", "e", "a", "v", "e", "s">>),
     StrArg(<<"s", "e", "l", "f", "_", "a", "n", "d", "_", " ", "a", "f", "t", "e", "r">>),
     StrArg(<<"a">>)}

Descendants ==
    Rendered("MdxHierarchySet.descendants",
             MdxHierarchySet_descendants(call.in.member, call.in.level_or_depth,
                                         call.in.desc_flag))

InitDescendants ==
    /\ builder = MdxBuilder(TheCube)
    /\ last = NoLast
    /\ SHORT_NOTATION = FALSE
    /\ \E member \in DescendantsMembers, level_or_depth \in DescendantsLevels,
          desc_flag \in DescendantsFlags :
          call = [fn |-> "input",
                  in |-> [member |-> member, level_or_depth |-> level_or_depth,
                          desc_flag |-> desc_flag],
                  out |-> <<>>, raised |-> FALSE]

NextDescendants == Descendants

SpecDescendants == InitDescendants /\ [][NextDescendants]_vars

(***************************************************************************)
(* Properties of descendants (SpecDescendants).                            *)
(***************************************************************************)
\* the text of a level argument: the expression rendered, or the digits of a
\* depth
LevelText(level_or_depth) ==
    IF level_or_depth.type = "MdxLevelExpression"
    THEN MdxLevelExpression_to_mdx(level_or_depth.val)
    ELSE level_or_depth.val

\* C22: descendants(member, level, flag) renders '{DESCENDANTS(' + the
\* member's unique name + [', ' + level text] + [', ' + FLAG name] + ')}',
\* the level part present exactly when a level expression or a depth (0
\* included) is given and the flag part exactly when a flag is given.
C22_DescendantsRendering ==
    (call.fn = "MdxHierarchySet.descendants" /\ ~call.raised) =>
        LET member == IF call.in.member.type = "str"
                      THEN Member_of(<<call.in.member.val>>).ret
                      ELSE call.in.member.val
            flag == EnumCall("DescFlag", call.in.desc_flag)
        IN  call.out = <<"{DESCENDANTS(">> \o member.unique_name
                \o (IF call.in.level_or_depth # None
                    THEN <<", ">> \o LevelText(call.in.level_or_depth) ELSE <<>>)
                \o (IF call.in.desc_flag # None
                    THEN <<", ">> \o flag.ret.name ELSE <<>>)
                \o <<")}">>

(***************************************************************************)
(* The specification of the builder used without a failing call: any       *)
(* sequence of calls on a new builder in which every call before a to_mdx  *)
(* returned, with arguments of the types the signatures name.              *)
(***************************************************************************)
\* members for the slicer: a Member and the unique name of one
SlicerArgs == {MemberArg(M1), StrArg(M2.unique_name)}

\* the call returned, and the builder holds no more than MaxSize entries,
\* its properties included
Returns ==
    /\ ~last'.raised
    /\ Size(builder') + PropertiesCount(builder'.axes_properties) <= MaxSize

NextFailFast ==
    \/ \E axis \in 0..1 : AddSetToAxis(axis, SetArg(S1)) /\ Returns
    \/ \E axis \in 0..1, args \in TupleArgs : AddMemberTupleToAxis(axis, args) /\ Returns
    \/ \E member \in SlicerArgs : AddMemberToWhere(member) /\ Returns
    \/ \E axis \in 0..1, args \in PropertyArgLists : AddProperties(axis, args) /\ Returns
    \/ \E axis \in 0..1, member \in PropertyArgs : AddMemberToProperties(axis, member) /\ Returns
    \/ \E a \in ToMdxArgs : ToMdx(a)

SpecFailFast == Init /\ [][NextFailFast]_vars

(***************************************************************************)
(* Properties of the builder used without a failing call (SpecFailFast).   *)
(***************************************************************************)
\* C24: after any sequence of builder calls that each returned without
\* raising, with arguments of the types their signatures accept, to_mdx
\* returns a text without raising.
C24_RenderNeverRaises == last.op = "to_mdx" => ~last.raised

(***************************************************************************)
(* The specification of the wrapping transformations: raw names are drawn, *)
(* a base set is made of them, and transformations are applied one on      *)
(* another.  call.in keeps the raw names and the base set, call.out the    *)
(* set reached.                                                            *)
(***************************************************************************)
\* the most transformations applied one on another
MaxChain == 2

\* the raw hierarchy names: absent, plain, and with a bracket
Hierarchies == {<<>>, <<"a">>, <<"B", "]">>}

Wrapped(fn, node) ==
    /\ call.in.chain < MaxChain
    /\ call' = [fn |-> fn, in |-> [call.in EXCEPT !.chain = @ + 1], out |-> node,
                raised |-> FALSE]
    /\ UNCHANGED <<builder, last, SHORT_NOTATION>>

FilterByElementType ==
    Wrapped("filter_by_element_type",
            Tm1FilterByElementTypeHierarchySet(call.out, StrArg(<<"s", "t", "r", "i", "n", "g">>)).ret)

FilterByAttributeOf ==
    Wrapped("filter_by_attribute",
            FilterByAttributeHierarchySet(call.out, <<"a">>, <<StrArg(<<"a">>)>>, <<"=">>))

Tm1Sort == Wrapped("tm1_sort", Tm1SortHierarchySet(call.out, TRUE))

Hierarchize == Wrapped("hierarchize", HierarchizeSet(call.out))

HeadCall == Wrapped("head", HeadHierarchySet(call.out, IntArg(1)))

TopCountOf == Wrapped("top_count", TopCountHierarchySet(call.out, <<"B">>, T1, IntArg(1)))

Union == Wrapped("union", UnionHierarchySet(call.out, call.in.base, FALSE))

Unions == Wrapped("unions", MultiUnionHierarchySet(<<call.out, call.in.base>>, FALSE).ret)

InitWrappers ==
    /\ builder = MdxBuilder(TheCube)
    /\ last = NoLast
    /\ SHORT_NOTATION = FALSE
    /\ \E dimension \in PartNames, hierarchy \in Hierarchies :
          call = [fn |-> "input",
                  in |-> [dimension |-> dimension, hierarchy |-> hierarchy,
                          base |-> Tm1SubsetAllHierarchySet(dimension, hierarchy),
                          chain |-> 0],
                  out |-> Tm1SubsetAllHierarchySet(dimension, hierarchy), raised |-> FALSE]

NextWrappers ==
    \/ FilterByElementType
    \/ FilterByAttributeOf
    \/ Tm1Sort
    \/ Hierarchize
    \/ HeadCall
    \/ TopCountOf
    \/ Union
    \/ Unions

SpecWrappers == InitWrappers /\ [][NextWrappers]_vars

(***************************************************************************)
(* Properties of the wrapping transformations (SpecWrappers).              *)
(***************************************************************************)
\* the token '[d].[h]' of a set
Token(node) == <<"[">> \o node.base.dimension \o PartSep \o node.base.hierarchy \o <<"]">>

\* C25: a set obtained by wrapping a base set any number of times has the
\* dimension and hierarchy of the base set, and the '[d].[h]' token and the
\* attribute cube name the wrapper itself emits are those of the base set,
\* for any raw names, also names that contain ']'.
C25_NormalizedOnce ==
    call.fn # "input" =>
        /\ call.out.base = call.in.base.base
        /\ call.fn = "filter_by_element_type" =>
              set_to_mdx(call.out) =
                  <<"{FILTER(">> \o set_to_mdx(call.out.f.underlying) \o <<",">>
                      \o Token(call.in.base)
                      \o <<".CURRENTMEMBER.PROPERTIES('ELEMENT_TYPE')=", "'", "2", "'", ")}">>
        /\ call.fn = "filter_by_attribute" =>
              Contains(set_to_mdx(call.out),
                       <<",", "[">> \o ELEMENT_ATTRIBUTE_PREFIX \o call.in.base.base.dimension
                           \o <<"]", ".", "(">>)

(***************************************************************************)
(* The specification of the whole builder: every call that changes the     *)
(* builder, on the columns and the rows of one new builder that holds no   *)
(* more than MaxEntries entries, its properties included.                  *)
(***************************************************************************)
MaxEntries == 2

NextAdditive ==
    /\ \/ \E axis \in 0..1 : NonEmpty(axis)
       \/ \E axis \in 0..1, mdx_set \in SetArgs : AddSetToAxis(axis, mdx_set)
       \/ \E axis \in 0..1, args \in TupleArgs : AddMemberTupleToAxis(axis, args)
       \/ \E axis \in 0..1 : AddEmptySetToAxis(axis)
       \/ \E member \in SlicerArgs : AddMemberToWhere(member)
       \/ \E args \in WhereArgLists : Where(args)
       \/ WithMember(CM1)
       \/ Tm1IgnoreBadTuples
       \/ \E axis \in 0..1, args \in PropertyArgLists : AddProperties(axis, args)
       \/ \E axis \in 0..1, member \in PropertyArgs : AddMemberToProperties(axis, member)
    /\ Size(builder') + PropertiesCount(builder'.axes_properties) <= MaxEntries

SpecAdditive == Init /\ [][NextAdditive]_vars

(***************************************************************************)
(* Properties of the transitions of the builder (SpecAdditive).            *)
(***************************************************************************)
IsPrefix(s, t) == Len(s) <= Len(t) /\ \A i \in 1..Len(s) : s[i] = t[i]

\* the builder after holds everything the builder before held, in place
Additive(before, after) ==
    /\ DictKeys(before.axes) \subseteq DictKeys(after.axes)
    /\ 0 \in DictKeys(after.axes)
    /\ after.cube = before.cube
    /\ \A position \in DictKeys(before.axes) :
          /\ DictGet(before.axes, position).non_empty => DictGet(after.axes, position).non_empty
          /\ IsPrefix(DictGet(before.axes, position).dim_sets,
                      DictGet(after.axes, position).dim_sets)
          /\ IsPrefix(DictGet(before.axes, position).tuples,
                      DictGet(after.axes, position).tuples)
    /\ \A position \in DictKeys(before.axes_properties) :
          /\ DictHas(after.axes_properties, position)
          /\ IsPrefix(DictGet(before.axes_properties, position).members,
                      DictGet(after.axes_properties, position).members)
    /\ IsPrefix(before._where.members, after._where.members)
    /\ IsPrefix(before.calculated_members, after.calculated_members)

C26_Step == ~last'.raised => Additive(builder, builder')

\* C26: across any successful builder call the axis positions never shrink
\* and contain 0, the cube name stays, a non-empty flag once set stays set,
\* and every set list, tuple list, properties list, the slicer and the
\* calculated members keep their previous contents as a prefix.
C26_TransitionsAreAdditive == [][C26_Step]_vars

\* add_member_to_properties returned on a position that had a property
\* already, and the position now has two
C26_Witness ==
    /\ last.op = "add_member_to_properties"
    /\ ~last.raised
    /\ DictHas(builder.axes_properties, last.axis)
    /\ Len(DictGet(builder.axes_properties, last.axis).members) = 2

(***************************************************************************)
(* The variant of the library in src/mdx.py: normalize gives upper case,   *)
(* a unique name always has three parts, and MdxTuple keeps its members in *)
(* an OrderedSet (of the package ordered_set), which keeps the order of    *)
(* insertion and takes two members as one when __eq__ and __hash__ agree.  *)
(***************************************************************************)
upper_char(c) ==
    CASE c = "a" -> "A"
      [] c = "b" -> "B"
      [] c = "c" -> "C"
      [] c = "d" -> "D"
      [] c = "e" -> "E"
      [] c = "f" -> "F"
      [] c = "g" -> "G"
      [] c = "h" -> "H"
      [] c = "i" -> "I"
      [] c = "j" -> "J"
      [] c = "k" -> "K"
      [] c = "l" -> "L"
      [] c = "m" -> "M"
      [] c = "n" -> "N"
      [] c = "o" -> "O"
      [] c = "p" -> "P"
      [] c = "q" -> "Q"
      [] c = "r" -> "R"
      [] c = "s" -> "S"
      [] c = "t" -> "T"
      [] c = "u" -> "U"
      [] c = "v" -> "V"
      [] c = "w" -> "W"
      [] c = "x" -> "X"
      [] c = "y" -> "Y"
      [] c = "z" -> "Z"
      [] OTHER -> c

\* str.upper()
str_upper(s) == [i \in 1..Len(s) |-> upper_char(s[i])]

mdx_normalize(name) ==
    str_replace(str_replace(str_upper(name), <<" ">>, <<>>), <<"]">>, <<"]", "]">>)

mdx_Member(dimension, hierarchy, element) ==
    [dimension |-> dimension, hierarchy |-> hierarchy, element |-> element,
     unique_name |-> <<"[">> \o mdx_normalize(dimension) \o PartSep \o mdx_normalize(hierarchy)
                         \o PartSep \o mdx_normalize(element) \o <<"]">>]

mdx_Member_of(args) ==
    IF Len(args) = 2 THEN Returned(mdx_Member(args[1], args[1], args[2]))
    ELSE IF Len(args) = 3 THEN Returned(mdx_Member(args[1], args[2], args[3]))
    ELSE Raised

mdx_Member___eq__(self, other) == self.unique_name = other.unique_name

mdx_Member___hash__(self) == str_hash(self.unique_name)

\* OrderedSet.add(key): the key is appended unless the set holds an item that
\* is equal to it and has its hash
OrderedSet_add(items, key) ==
    IF \E i \in 1..Len(items) :
          mdx_Member___hash__(items[i]) = mdx_Member___hash__(key)
              /\ mdx_Member___eq__(items[i], key)
    THEN items
    ELSE Append(items, key)

\* OrderedSet(iterable): the items added one after another
RECURSIVE OrderedSet_update(_, _)
OrderedSet_update(items, sequence) ==
    IF sequence = <<>> THEN items
    ELSE OrderedSet_update(OrderedSet_add(items, sequence[1]), Tail(sequence))

OrderedSet(iterable) == OrderedSet_update(<<>>, iterable)

mdx_MdxTuple(members) == [members |-> OrderedSet(members)]

mdx_MdxTuple_of(args) == mdx_MdxTuple(args)

\* add_member on a list of members in place of the OrderedSet
mdx_MdxTuple_add_member_appending(self, member) ==
    [self EXCEPT !.members = Append(@, member)]

mdx_MdxTuple_add_member(self, member) ==
    [self EXCEPT !.members = OrderedSet_add(@, member)]

mdx_MdxTuple_to_mdx(self) ==
    <<"(">> \o str_join(<<",">>, [i \in 1..Len(self.members) |-> self.members[i].unique_name])
            \o <<")">>

mdx_MdxTuple___len__(self) == Len(self.members)

(***************************************************************************)
(* The specification of the de-duplicating tuple: MdxTuple.of is applied   *)
(* to drawn members, and members are added to the tuple.  call.in keeps    *)
(* the arguments of the last call and the tuple before it, call.out the    *)
(* tuple.                                                                  *)
(***************************************************************************)
\* the most arguments of MdxTuple.of, and the most calls of add_member
MaxTupleArgs == 2

\* members of three unique names; the first two differ in case alone
TupleMembers ==
    {mdx_Member(<<"a">>, <<"a">>, <<"b">>), mdx_Member(<<"A">>, <<"a">>, <<"B">>),
     mdx_Member(<<"a">>, <<"b">>, <<"b">>), mdx_Member(<<"b">>, <<"a">>, <<" ", "a">>)}

TupleOf ==
    /\ call.fn = "input"
    /\ call' = [fn |-> "MdxTuple.of", in |-> call.in, out |-> mdx_MdxTuple_of(call.in.args),
                raised |-> FALSE]
    /\ UNCHANGED <<builder, last, SHORT_NOTATION>>

TupleAddMember(member) ==
    /\ call.fn # "input"
    /\ call.in.calls < MaxTupleArgs
    /\ call' = [fn |-> "add_member",
                in |-> [args |-> <<member>>, before |-> call.out, calls |-> call.in.calls + 1],
                out |-> mdx_MdxTuple_add_member(call.out, member), raised |-> FALSE]
    /\ UNCHANGED <<builder, last, SHORT_NOTATION>>

InitTuple ==
    /\ builder = MdxBuilder(TheCube)
    /\ last = NoLast
    /\ SHORT_NOTATION = FALSE
    /\ \E args \in UNION {TuplesOf(TupleMembers, n) : n \in 0..MaxTupleArgs} :
          call = [fn |-> "input",
                  in |-> [args |-> args, before |-> mdx_MdxTuple(<<>>), calls |-> 0],
                  out |-> mdx_MdxTuple(<<>>), raised |-> FALSE]

NextTuple == TupleOf \/ \E member \in TupleMembers : TupleAddMember(member)

SpecTuple == InitTuple /\ [][NextTuple]_vars

(***************************************************************************)
(* Properties of the de-duplicating tuple (SpecTuple).                     *)
(***************************************************************************)
\* the members whose unique name no earlier member has, in order
FirstOccurrences(members) ==
    LET keep == {i \in 1..Len(members) :
                    \A j \in 1..(i - 1) : members[j].unique_name # members[i].unique_name}
        nth[k \in 0..Cardinality(keep)] ==
            IF k = 0 THEN 0 ELSE CHOOSE i \in keep : i > nth[k - 1] /\ \A j \in keep : j > nth[k - 1] => i <= j
    IN  [k \in 1..Cardinality(keep) |-> members[nth[k]]]

UniqueNames(self) == {self.members[i].unique_name : i \in 1..Len(self.members)}

C28_Step ==
    (last'.raised /\ last'.op \in {"add_set_to_axis", "add_member_tuple_to_axis"}) =>
        /\ builder' = builder
        /\ \A a \in ToMdxArgs : to_mdx(builder', a) = to_mdx(builder, a)

\* C28: whenever add_set_to_axis, add_hierarchy_set_to_axis or
\* add_member_tuple_to_axis raises, the builder after the call equals the
\* builder before it, its axis positions included, and to_mdx returns the
\* text it returned before.
C28_FailingAddChangesNothing == [][C28_Step]_vars

C29_Step ==
    /\ (last'.raised /\ last'.op = "where") => builder'._where = builder._where
    /\ (last'.raised /\ last'.op = "add_properties") =>
          DictGetOr(builder'.axes_properties, last'.axis, MdxPropertiesTuple_empty)
              = DictGetOr(builder.axes_properties, last'.axis, MdxPropertiesTuple_empty)

\* C29: when where or add_properties raises on an invalid argument, the
\* slicer, respectively the properties of that axis, is as it was before the
\* call: no valid argument that precedes the invalid one has been added.
C29_AllOrNothing == [][C29_Step]_vars

(***************************************************************************)
(* The specification of the notation toggle: Member.SHORT_NOTATION is      *)
(* assigned between the constructions of members, of a tuple and a set     *)
(* holding them, and the calls of a builder that is given them.  call.out  *)
(* holds the constructed objects, call.in the value SHORT_NOTATION had     *)
(* when each member was constructed.                                       *)
(***************************************************************************)
\* the most members constructed and held, and the most entries of the builder
MaxHeld == 1

\* arguments of Member.of
HeldMemberArgs == {<<(<<"a">>), (<<"B">>)>>, <<(<<"B">>), (<<"a">>), (<<"a">>)>>}

\* a unique name given to the builder in place of a member
HeldName == <<"[", "a", "]", ".", "[", "b", "]">>

\* to_mdx() without keyword arguments
NoHeadTail ==
    [head_columns |-> None, head_rows |-> None, tail_columns |-> None, tail_rows |-> None,
     skip_dimension_properties |-> FALSE]

NoHeld == [fn |-> "held", in |-> <<>>,
           out |-> [members |-> <<>>, tuple |-> <<>>, set |-> <<>>], raised |-> FALSE]

HeldMembers == {call.out.members[i] : i \in 1..Len(call.out.members)}

HeldArgs == [i \in 1..Len(call.out.members) |-> MemberArg(call.out.members[i])]

\* the members the builder holds in the tuples of its axes and in its slicer
BuilderMembers ==
    {builder._where.members[i] : i \in 1..Len(builder._where.members)}
        \cup UNION {UNION {{builder.axes[k].value.tuples[t].members[i] :
                                i \in 1..Len(builder.axes[k].value.tuples[t].members)} :
                            t \in 1..Len(builder.axes[k].value.tuples)} :
                     k \in 1..Len(builder.axes)}

\* what is read from the held objects and the builder
Readings ==
    [unique_names |-> [i \in 1..Len(call.out.members) |-> call.out.members[i].unique_name],
     eq |-> [i \in 1..Len(call.out.members) |->
                [m \in HeldMembers \cup BuilderMembers |->
                    Member___eq__(call.out.members[i], m)]],
     hash |-> [i \in 1..Len(call.out.members) |-> Member___hash__(call.out.members[i])],
     tuple |-> [i \in 1..Len(call.out.tuple) |-> MdxTuple_to_mdx(call.out.tuple[i])],
     set |-> [i \in 1..Len(call.out.set) |-> set_to_mdx(call.out.set[i])],
     axes |-> [i \in 1..Len(builder.axes) |->
                  MdxAxis_to_mdx(builder.axes[i].value, builder._tm1_ignore_bad_tuples,
                                 None, None)],
     where |-> MdxTuple_to_mdx(builder._where),
     builder |-> LET r == to_mdx(builder, NoHeadTail)
                 IN  [raised |-> r.raised, ret |-> r.ret]]

\* Member.SHORT_NOTATION = value; last keeps what was read from the held
\* objects and the builder before the assignment
SetShortNotation(value) ==
    /\ SHORT_NOTATION' = value
    /\ last' = Called("SHORT_NOTATION", -1, [value |-> value, held |-> call],
                      Returned(Readings))
    /\ UNCHANGED <<builder, call>>

\* m = Member.of(*args)
HoldMember(args) ==
    /\ Len(call.out.members) < MaxHeld
    /\ LET r == Member_of(args)
       IN  /\ ~r.raised
           /\ call' = [fn |-> "held", in |-> Append(call.in, SHORT_NOTATION),
                       out |-> [call.out EXCEPT !.members = Append(@, r.ret)],
                       raised |-> FALSE]
    /\ UNCHANGED <<builder, last, SHORT_NOTATION>>

\* t = MdxTuple.of(*members)
HoldTuple ==
    /\ call.out.members # <<>>
    /\ call' = [call EXCEPT !.out.tuple = <<MdxTuple_of(HeldArgs).ret>>]
    /\ UNCHANGED <<builder, last, SHORT_NOTATION>>

\* s = MdxHierarchySet.members(members)
HoldSet ==
    /\ call.out.members # <<>>
    /\ call' = [call EXCEPT !.out.set = <<MdxHierarchySet_members(HeldArgs).ret>>]
    /\ UNCHANGED <<builder, last, SHORT_NOTATION>>

InitNotation ==
    /\ builder = MdxBuilder(TheCube)
    /\ last = NoLast
    /\ call = NoHeld
    /\ SHORT_NOTATION = FALSE

NextNotation ==
    \/ \E value \in BOOLEAN : SetShortNotation(value)
    \/ \E args \in HeldMemberArgs : HoldMember(args)
    \/ HoldTuple
    \/ HoldSet
    \/ \E m \in HeldMembers :
          AddMemberTupleToAxis(0, <<MemberArg(m)>>) /\ Size(builder') <= MaxHeld
    \/ AddMemberTupleToAxis(0, <<StrArg(HeldName)>>) /\ Size(builder') <= MaxHeld
    \/ /\ call.out.set # <<>>
       /\ AddSetToAxis(0, SetArg(call.out.set[1]))
       /\ Size(builder') <= MaxHeld
    \/ \E m \in HeldMembers : AddMemberToWhere(MemberArg(m)) /\ Size(builder') <= MaxHeld

SpecNotation == InitNotation /\ [][NextNotation]_vars

\* the unique name of the coordinates of a member in the given notation
NameIn(short, m) ==
    IF short /\ m.dimension = m.hierarchy
    THEN <<"[">> \o normalize(m.dimension) \o PartSep \o normalize(m.element) \o <<"]">>
    ELSE <<"[">> \o normalize(m.dimension) \o PartSep \o normalize(m.hierarchy)
             \o PartSep \o normalize(m.element) \o <<"]">>

\* C30: every member keeps the unique name of the notation that was set when
\* it was constructed, and an assignment to Member.SHORT_NOTATION changes
\* neither the unique name, equality or hash of a member constructed before it
\* nor the text rendered by a tuple, a set, an axis or a builder that holds it;
\* a member constructed after it has the name of the new notation.
C30_NameFixedAtConstruction ==
    /\ \A i \in 1..Len(call.out.members) :
          call.out.members[i].unique_name = NameIn(call.in[i], call.out.members[i])
    /\ (last.op = "SHORT_NOTATION" /\ last.arg.held = call) => Readings = last.ret

\* a member of a dimension's own hierarchy, constructed in the long notation,
\* is held by a tuple, a set and an axis of the builder and rendered in the
\* long notation after the short notation was set
C30_Witness ==
    /\ SHORT_NOTATION
    /\ last.op = "SHORT_NOTATION" /\ last.arg.held = call
    /\ call.out.tuple # <<>> /\ call.out.set # <<>>
    /\ \E i \in 1..Len(call.out.members) :
          /\ ~call.in[i]
          /\ call.out.members[i].dimension = call.out.members[i].hierarchy
          /\ str_count(call.out.members[i].unique_name, PartSep) = 2
          /\ \E k \in 1..Len(builder.axes) :
                \E t \in 1..Len(builder.axes[k].value.tuples) :
                   builder.axes[k].value.tuples[t].members = <<call.out.members[i]>>
          /\ str_count(Readings.builder.ret, call.out.members[i].unique_name) = 1

====
